---- MODULE Spec2Model ----
(***************************************************************************)
(* ViperMonkey execution context (vipermonkey/core/vba_context.py).        *)
(*                                                                         *)
(* A Python str is a sequence of character codes, so that lower(),         *)
(* replace(), strip(), endswith() and base64 decoding are computed the     *)
(* way the interpreter computes them.  Python dictionaries live on heaps   *)
(* (dicts, ofiles, cfiles) and a Context holds references into them, so    *)
(* that sharing and copying of mappings is what the constructor does.      *)
(***************************************************************************)
EXTENDS Integers, Sequences, FiniteSets, TLC

VARIABLES ctxs, dicts, ofiles, cfiles, actions, out_dir, disk, world, nodes, last, nops

vars == <<ctxs, dicts, ofiles, cfiles, actions, out_dir, disk, world, nodes, last, nops>>

---------------------------------------------------------------------------
(* Bounds of the model *)

MaxCtx == 2      \* Context objects alive at once
MaxOps == 3      \* state-changing calls in one run
MaxLen == 2      \* bytes written to one simulated file
RecursionLimit == 8   \* sys.getrecursionlimit() of the interpreter
MaxInt == 12     \* integers coerced are within -MaxInt..MaxInt
MaxTime == 2     \* ticks of the clock

---------------------------------------------------------------------------
(* Strings used by the code and by the runs *)

S_text == <<46, 116, 101, 120, 116>>   \* ".text"
S_datatype == <<46, 100, 97, 116, 97, 116, 121, 112, 101>>   \* ".datatype"
S_nodetypedvalue == <<46, 110, 111, 100, 101, 116, 121, 112, 101, 100, 118, 97, 108, 117, 101>>   \* ".nodetypedvalue"
S_bin_base64 == <<98, 105, 110, 46, 98, 97, 115, 101, 54, 52>>   \* "bin.base64"
S_dollar == <<36>>   \* "$"
S_hash == <<35>>   \* "#"
A_DroppedFileHash == <<68, 114, 111, 112, 112, 101, 100, 32, 70, 105, 108, 101, 32, 72, 97, 115, 104>>   \* "Dropped File Hash"
D_FileName == <<70, 105, 108, 101, 32, 78, 97, 109, 101, 58, 32>>   \* "File Name: "

N_A == <<65>>   \* "A"
N_a == <<97>>   \* "a"
N_a_dollar == <<97, 36>>   \* "a$"
N_vba_a == <<118, 98, 97, 46, 97>>   \* "vba.a"
N_a_text == <<97, 46, 116, 101, 120, 116>>   \* "a.text"
N_a_datatype == <<97, 46, 100, 97, 116, 97, 116, 121, 112, 101>>   \* "a.datatype"
N_Len == <<76, 101, 110>>   \* "Len"
N_len == <<108, 101, 110>>   \* "len"
N_chr == <<99, 104, 114>>   \* "chr"
N_vbkeytab == <<118, 98, 107, 101, 121, 116, 97, 98>>   \* "vbkeytab"
N_vba_vbkeytab == <<118, 98, 97, 46, 118, 98, 107, 101, 121, 116, 97, 98>>   \* "vba.vbkeytab"
P_VBA == <<86, 66, 65, 46>>   \* "VBA."
V_aGk == <<97, 71, 107, 61>>   \* "aGk=", the base64 form of "hi"
N_x == <<120>>
N_X == <<88>>
N_b == <<98>>
N_zz == <<122, 122>>
S_star == <<42>>
V_payload == <<112, 97, 121>>   \* "pay"
V_wild == <<119>>               \* "w"
E_thisworkbook == <<116, 104, 105, 115, 119, 111, 114, 107, 98, 111, 111, 107, 46>>   \* "thisworkbook."
E_sheets == <<115, 104, 101, 101, 116, 115, 40>>   \* "sheets("
E_range == <<114, 97, 110, 103, 101, 40>>   \* "range("
S_rparen == <<41>>   \* ")"
S_lparen == <<40>>   \* "("
S_dquote == <<34>>   \* '"'
S_squote == <<39>>   \* "'"
S_dot == <<46>>   \* "."
S_one == <<49>>   \* "1"
S_nul == <<0>>   \* "\0"
T_TextRangeText == <<46, 84, 101, 120, 116, 70, 114, 97, 109, 101, 46, 84, 101, 120, 116, 82, 97, 110, 103, 101, 46, 84, 101, 120, 116>>   \* ".TextFrame.TextRange.Text"
T_AlternativeText == <<46, 65, 108, 116, 101, 114, 110, 97, 116, 105, 118, 101, 84, 101, 120, 116>>   \* ".AlternativeText"
T_ContainingRange == <<46, 84, 101, 120, 116, 70, 114, 97, 109, 101, 46, 67, 111, 110, 116, 97, 105, 110, 105, 110, 103, 82, 97, 110, 103, 101>>   \* ".TextFrame.ContainingRange"
S_ActiveDocument == <<65, 99, 116, 105, 118, 101, 68, 111, 99, 117, 109, 101, 110, 116>>   \* "ActiveDocument"
S_selecteditem == <<46, 115, 101, 108, 101, 99, 116, 101, 100, 105, 116, 101, 109>>   \* ".selecteditem"
S_rapt_value == <<46, 114, 97, 112, 116, 46, 118, 97, 108, 117, 101>>   \* ".rapt.value"
M_item == <<97, 99, 116, 105, 118, 101, 100, 111, 99, 117, 109, 101, 110, 116, 46, 105, 116, 101, 109, 40>>   \* "activedocument.item("
M_builtin == <<116, 104, 105, 115, 100, 111, 99, 117, 109, 101, 110, 116, 46, 98, 117, 105, 108, 116, 105, 110, 100, 111, 99, 117, 109, 101, 110, 116, 112, 114, 111, 112, 101, 114, 116, 105, 101, 115, 40>>   \* "thisdocument.builtindocumentproperties("
M_variables == <<97, 99, 116, 105, 118, 101, 100, 111, 99, 117, 109, 101, 110, 116, 46, 118, 97, 114, 105, 97, 98, 108, 101, 115, 40>>   \* "activedocument.variables("
M_custom == <<97, 99, 116, 105, 118, 101, 100, 111, 99, 117, 109, 101, 110, 116, 46, 99, 117, 115, 116, 111, 109, 100, 111, 99, 117, 109, 101, 110, 116, 112, 114, 111, 112, 101, 114, 116, 105, 101, 115, 40>>   \* "activedocument.customdocumentproperties("
S_value == <<46, 118, 97, 108, 117, 101>>   \* ".value"
S_NULL == <<78, 85, 76, 76>>   \* "NULL"
F_1 == <<35, 49>>   \* "#1"
F_plain1 == <<49>>   \* "1"

---------------------------------------------------------------------------
(* Python str operations *)

Lower(s) == [i \in 1..Len(s) |-> IF s[i] >= 65 /\ s[i] <= 90 THEN s[i] + 32 ELSE s[i]]

Upper(s) == [i \in 1..Len(s) |-> IF s[i] >= 97 /\ s[i] <= 122 THEN s[i] - 32 ELSE s[i]]

StartsAt(s, sub, i) ==
    /\ i + Len(sub) - 1 <= Len(s)
    /\ SubSeq(s, i, i + Len(sub) - 1) = sub

EndsWith(s, suf) ==
    /\ Len(suf) <= Len(s)
    /\ SubSeq(s, Len(s) - Len(suf) + 1, Len(s)) = suf

RECURSIVE ReplaceFrom(_, _, _, _)
ReplaceFrom(s, old, new, i) ==
    IF i > Len(s) THEN <<>>
    ELSE IF StartsAt(s, old, i) THEN new \o ReplaceFrom(s, old, new, i + Len(old))
    ELSE <<s[i]>> \o ReplaceFrom(s, old, new, i + 1)

\* s.replace(old, new), old not empty: every occurrence, left to right
Replace(s, old, new) == ReplaceFrom(s, old, new, 1)

IsSpace(c) == c \in {9, 10, 11, 12, 13, 32}

RECURSIVE LStrip(_)
LStrip(s) == IF s # <<>> /\ IsSpace(s[1]) THEN LStrip(Tail(s)) ELSE s

RECURSIVE RStrip(_)
RStrip(s) == IF s # <<>> /\ IsSpace(s[Len(s)]) THEN RStrip(SubSeq(s, 1, Len(s) - 1)) ELSE s

Strip(s) == RStrip(LStrip(s))

\* sub in s
Contains(s, sub) == \E i \in 1..(Len(s) + 1) : StartsAt(s, sub, i)

\* s.index(sub) for a sub that occurs in s (counted from 0)
Index(s, sub) ==
    (CHOOSE i \in 1..(Len(s) + 1) :
        StartsAt(s, sub, i) /\ \A j \in 1..(i - 1) : ~StartsAt(s, sub, j)) - 1

\* s.rindex(sub) for a sub that occurs in s (counted from 0)
RIndex(s, sub) ==
    (CHOOSE i \in 1..(Len(s) + 1) :
        StartsAt(s, sub, i) /\ \A j \in (i + 1)..(Len(s) + 1) : ~StartsAt(s, sub, j)) - 1

StartsWith(s, pre) == StartsAt(s, pre, 1)

\* s[i:] and s[:i] for 0 <= i
From(s, i) == SubSeq(s, i + 1, Len(s))
Upto(s, i) == SubSeq(s, 1, IF i < Len(s) THEN i ELSE Len(s))

IsAlpha(c) == (c >= 65 /\ c <= 90) \/ (c >= 97 /\ c <= 122)
IsDigit(c) == c >= 48 /\ c <= 57

RECURSIVE DigitsValue(_)
DigitsValue(s) ==
    IF s = <<>> THEN 0 ELSE 10 * DigitsValue(SubSeq(s, 1, Len(s) - 1)) + (s[Len(s)] - 48)

\* int(s) of a str: blanks around, an optional sign, then digits only
ParseInt(s) ==
    LET b == Strip(s)
        signed == b # <<>> /\ b[1] \in {43, 45}
        d == IF signed THEN Tail(b) ELSE b
    IN  IF d = <<>> \/ \E i \in 1..Len(d) : ~IsDigit(d[i])
        THEN [ok |-> FALSE, n |-> 0]
        ELSE [ok |-> TRUE, n |-> IF signed /\ b[1] = 45 THEN -DigitsValue(d) ELSE DigitsValue(d)]

RECURSIVE Digits(_)
Digits(n) == IF n < 10 THEN <<48 + n>> ELSE Digits(n \div 10) \o <<48 + (n % 10)>>

---------------------------------------------------------------------------
(* Values held by the mappings *)

None == 0

NoneV == [t |-> "none", s |-> <<>>, n |-> 0]
StrV(s) == [t |-> "str", s |-> s, n |-> 0]
IntV(n) == [t |-> "int", s |-> <<>>, n |-> n]
\* a Sub or Function object: it has a statements attribute
ProcV(n) == [t |-> "proc", s |-> <<>>, n |-> n]
\* a built-in function of the VBA library
LibV(n) == [t |-> "lib", s |-> <<>>, n |-> n]

is_procedure(vba_object) == vba_object.t = "proc"

\* str(value)
Str(v) ==
    IF v.t \in {"str", "node", "member"} THEN v.s
    ELSE IF v.t = "int" THEN (IF v.n < 0 THEN <<45>> \o Digits(-v.n) ELSE Digits(v.n))
    ELSE IF v.t = "none" THEN <<78, 111, 110, 101>>
    ELSE <<60>> \o Digits(v.n) \o <<62>>

EmptyDict == <<>>

Put(d, k, v) == [x \in (DOMAIN d) \cup {k} |-> IF x = k THEN v ELSE d[x]]

Del(d, k) == [x \in (DOMAIN d) \ {k} |-> d[x]]

\* the shared built-in library
VBA_LIBRARY == Put(Put(EmptyDict, N_len, LibV(1)), N_chr, LibV(2))

Hit(v) == [ok |-> TRUE, val |-> v]
KeyError == [ok |-> FALSE, val |-> NoneV]

---------------------------------------------------------------------------
(* base64.b64decode *)

b64val(c) ==
    IF c >= 65 /\ c <= 90 THEN c - 65
    ELSE IF c >= 97 /\ c <= 122 THEN c - 71
    ELSE IF c >= 48 /\ c <= 57 THEN c + 4
    ELSE IF c = 43 THEN 62
    ELSE IF c = 47 THEN 63
    ELSE IF c = 61 THEN 0
    ELSE -1

RECURSIVE find_valid(_, _, _)
\* the (num+1)th character of s from position i on that is in the alphabet
find_valid(s, i, num) ==
    IF i > Len(s) THEN -1
    ELSE IF s[i] <= 127 /\ b64val(s[i]) # -1
         THEN (IF num = 0 THEN s[i] ELSE find_valid(s, i + 1, num - 1))
         ELSE find_valid(s, i + 1, num)

Pow2(k) == IF k = 0 THEN 1 ELSE IF k = 2 THEN 4 ELSE IF k = 4 THEN 16 ELSE 64

RECURSIVE a2b_base64(_, _, _, _, _, _)
a2b_base64(s, i, quad_pos, leftchar, leftbits, out) ==
    IF i > Len(s)
    THEN [ok |-> leftbits = 0, bytes |-> out]
    ELSE LET c == s[i] IN
         IF c > 127 \/ c \in {13, 10, 32}
         THEN a2b_base64(s, i + 1, quad_pos, leftchar, leftbits, out)
         ELSE IF c = 61
         THEN (IF quad_pos < 2 \/ (quad_pos = 2 /\ find_valid(s, i, 1) # 61)
               THEN a2b_base64(s, i + 1, quad_pos, leftchar, leftbits, out)
               ELSE [ok |-> TRUE, bytes |-> out])
         ELSE IF b64val(c) = -1
         THEN a2b_base64(s, i + 1, quad_pos, leftchar, leftbits, out)
         ELSE LET q == (quad_pos + 1) % 4
                  lc == leftchar * 64 + b64val(c)
                  lb == leftbits + 6
              IN IF lb >= 8
                 THEN a2b_base64(s, i + 1, q, lc % Pow2(lb - 8), lb - 8,
                                 Append(out, (lc \div Pow2(lb - 8)) % 256))
                 ELSE a2b_base64(s, i + 1, q, lc, lb, out)

b64decode(s) == a2b_base64(s, 1, 0, 0, 0, <<>>)

---------------------------------------------------------------------------
(* Context: lookups.  st is the store a call works on: st.d the heap of   *)
(* name->value mappings, st.ty the types mapping of the Context; cx is the *)
(* Context object (its references and its with_prefix).                    *)

\* _get searching globals before locals
MutGetGlobalsFirst(st, cx, name) ==
    LET n == Lower(name) IN
    IF n \in DOMAIN st.d[cx.globals] THEN Hit(st.d[cx.globals][n])
    ELSE IF n \in DOMAIN st.d[cx.locals] THEN Hit(st.d[cx.locals][n])
    ELSE IF n \in DOMAIN VBA_LIBRARY THEN Hit(VBA_LIBRARY[n])
    ELSE KeyError

\* Context._get
get_(st, cx, name) ==
    LET n == Lower(name) IN
    IF n \in DOMAIN st.d[cx.locals] THEN Hit(st.d[cx.locals][n])
    ELSE IF n \in DOMAIN st.d[cx.globals] THEN Hit(st.d[cx.globals][n])
    ELSE IF n \in DOMAIN VBA_LIBRARY THEN Hit(VBA_LIBRARY[n])
    ELSE KeyError

\* get without the trailing-"$" form
MutGetNoDollar(st, cx, name) ==
    LET r1 == get_(st, cx, cx.with_prefix \o name) IN
    IF r1.ok THEN r1
    ELSE get_(st, cx, name)

\* Context.get
get(st, cx, name) ==
    LET r1 == get_(st, cx, cx.with_prefix \o name) IN
    IF r1.ok THEN r1
    ELSE LET r2 == get_(st, cx, name) IN
         IF r2.ok THEN r2
         ELSE get_(st, cx, name \o S_dollar)

\* Context.contains
contains(st, cx, name, local) ==
    IF local THEN Lower(name) \in DOMAIN st.d[cx.locals]
    ELSE get(st, cx, name).ok

\* what a call gives back: a returned value, or the exception it raises
Return(v) == [exc |-> "", val |-> v]
Raise(e) == [exc |-> e, val |-> NoneV]

RECURSIVE get_doc_var(_, _, _, _)

\* Context.get_doc_var; seen holds the names the recursion has gone through:
\* coming back to one of them, the recursion never ends and the interpreter
\* raises "maximum recursion depth exceeded"
get_doc_var(st, cx, var, seen) ==
    IF var.t # "str" THEN Return(NoneV)
    ELSE
    LET v == Lower(var.s)
        dv == st.d[cx.doc_vars]
    IN  IF v \in seen THEN Raise("RuntimeError")
        ELSE IF v \notin DOMAIN dv
        THEN LET var_value == get(st, cx, v)
             IN  IF var_value.ok /\ var_value.val # NoneV
                 THEN get_doc_var(st, cx, var_value.val, seen \cup {v})
                 ELSE IF S_star \in DOMAIN dv THEN Return(dv[S_star])
                 ELSE Return(NoneV)
        ELSE Return(dv[v])

RECURSIVE set(_, _, _, _, _, _)

\* set storing the name as given, not lowercased
MutSetNoLower(st, cx, name0, value, var_type, do_with_prefix) ==
    LET name == name0
        st1 == IF name \in DOMAIN st.d[cx.locals]
               THEN [st EXCEPT !.d[cx.locals] = Put(@, name, value)]
               ELSE IF name \in DOMAIN st.d[cx.globals]
                       /\ ~is_procedure(st.d[cx.globals][name])
               THEN [st EXCEPT !.d[cx.globals] = Put(@, name, value)]
               ELSE [st EXCEPT !.d[cx.locals] = Put(@, name, value)]
        st2 == IF var_type # NoneV
               THEN [st1 EXCEPT !.ty = Put(@, name, var_type)]
               ELSE st1
        st3 == IF do_with_prefix /\ Len(cx.with_prefix) > 0
               THEN set(st2, cx, cx.with_prefix \o name, value, var_type, FALSE)
               ELSE st2
    IN  IF ~EndsWith(name, S_text) THEN st3
        ELSE LET node_type == Replace(name, S_text, S_datatype)
                 r == get(st3, cx, node_type)
             IN  IF ~r.ok THEN st3
                 ELSE IF Strip(Str(r.val)) # S_bin_base64 THEN st3
                 ELSE LET conv == b64decode(Strip(Str(value)))
                          val_name == Replace(name, S_text, S_nodetypedvalue)
                      IN  IF conv.ok
                          THEN set(st3, cx, val_name, StrV(conv.bytes), NoneV, TRUE)
                          ELSE st3

\* set without the is_procedure guard on globals
MutSetOverwriteProc(st, cx, name0, value, var_type, do_with_prefix) ==
    LET name == Lower(name0)
        st1 == IF name \in DOMAIN st.d[cx.locals]
               THEN [st EXCEPT !.d[cx.locals] = Put(@, name, value)]
               ELSE IF name \in DOMAIN st.d[cx.globals]
               THEN [st EXCEPT !.d[cx.globals] = Put(@, name, value)]
               ELSE [st EXCEPT !.d[cx.locals] = Put(@, name, value)]
        st2 == IF var_type # NoneV
               THEN [st1 EXCEPT !.ty = Put(@, name, var_type)]
               ELSE st1
        st3 == IF do_with_prefix /\ Len(cx.with_prefix) > 0
               THEN set(st2, cx, cx.with_prefix \o name, value, var_type, FALSE)
               ELSE st2
    IN  IF ~EndsWith(name, S_text) THEN st3
        ELSE LET node_type == Replace(name, S_text, S_datatype)
                 r == get(st3, cx, node_type)
             IN  IF ~r.ok THEN st3
                 ELSE IF Strip(Str(r.val)) # S_bin_base64 THEN st3
                 ELSE LET conv == b64decode(Strip(Str(value)))
                          val_name == Replace(name, S_text, S_nodetypedvalue)
                      IN  IF conv.ok
                          THEN set(st3, cx, val_name, StrV(conv.bytes), NoneV, TRUE)
                          ELSE st3

\* set that never repeats the write under with_prefix
MutSetNoPrefix(st, cx, name0, value, var_type, do_with_prefix) ==
    LET name == Lower(name0)
        st1 == IF name \in DOMAIN st.d[cx.locals]
               THEN [st EXCEPT !.d[cx.locals] = Put(@, name, value)]
               ELSE IF name \in DOMAIN st.d[cx.globals]
                       /\ ~is_procedure(st.d[cx.globals][name])
               THEN [st EXCEPT !.d[cx.globals] = Put(@, name, value)]
               ELSE [st EXCEPT !.d[cx.locals] = Put(@, name, value)]
        st2 == IF var_type # NoneV
               THEN [st1 EXCEPT !.ty = Put(@, name, var_type)]
               ELSE st1
        st3 == IF FALSE
               THEN set(st2, cx, cx.with_prefix \o name, value, var_type, FALSE)
               ELSE st2
    IN  IF ~EndsWith(name, S_text) THEN st3
        ELSE LET node_type == Replace(name, S_text, S_datatype)
                 r == get(st3, cx, node_type)
             IN  IF ~r.ok THEN st3
                 ELSE IF Strip(Str(r.val)) # S_bin_base64 THEN st3
                 ELSE LET conv == b64decode(Strip(Str(value)))
                          val_name == Replace(name, S_text, S_nodetypedvalue)
                      IN  IF conv.ok
                          THEN set(st3, cx, val_name, StrV(conv.bytes), NoneV, TRUE)
                          ELSE st3

\* set storing the text as it is, not decoded, under .nodetypedvalue
MutSetNoDecode(st, cx, name0, value, var_type, do_with_prefix) ==
    LET name == Lower(name0)
        st1 == IF name \in DOMAIN st.d[cx.locals]
               THEN [st EXCEPT !.d[cx.locals] = Put(@, name, value)]
               ELSE IF name \in DOMAIN st.d[cx.globals]
                       /\ ~is_procedure(st.d[cx.globals][name])
               THEN [st EXCEPT !.d[cx.globals] = Put(@, name, value)]
               ELSE [st EXCEPT !.d[cx.locals] = Put(@, name, value)]
        st2 == IF var_type # NoneV
               THEN [st1 EXCEPT !.ty = Put(@, name, var_type)]
               ELSE st1
        st3 == IF do_with_prefix /\ Len(cx.with_prefix) > 0
               THEN set(st2, cx, cx.with_prefix \o name, value, var_type, FALSE)
               ELSE st2
    IN  IF ~EndsWith(name, S_text) THEN st3
        ELSE LET node_type == Replace(name, S_text, S_datatype)
                 r == get(st3, cx, node_type)
             IN  IF ~r.ok THEN st3
                 ELSE IF Strip(Str(r.val)) # S_bin_base64 THEN st3
                 ELSE LET conv == b64decode(Strip(Str(value)))
                          val_name == Replace(name, S_text, S_nodetypedvalue)
                      IN  IF conv.ok
                          THEN set(st3, cx, val_name, StrV(Strip(Str(value))), NoneV, TRUE)
                          ELSE st3

\* Context.set
set(st, cx, name0, value, var_type, do_with_prefix) ==
    LET name == Lower(name0)
        st1 == IF name \in DOMAIN st.d[cx.locals]
               THEN [st EXCEPT !.d[cx.locals] = Put(@, name, value)]
               ELSE IF name \in DOMAIN st.d[cx.globals]
                       /\ ~is_procedure(st.d[cx.globals][name])
               THEN [st EXCEPT !.d[cx.globals] = Put(@, name, value)]
               ELSE [st EXCEPT !.d[cx.locals] = Put(@, name, value)]
        st2 == IF var_type # NoneV
               THEN [st1 EXCEPT !.ty = Put(@, name, var_type)]
               ELSE st1
        st3 == IF do_with_prefix /\ Len(cx.with_prefix) > 0
               THEN set(st2, cx, cx.with_prefix \o name, value, var_type, FALSE)
               ELSE st2
    IN  IF ~EndsWith(name, S_text) THEN st3
        ELSE LET node_type == Replace(name, S_text, S_datatype)
                 r == get(st3, cx, node_type)
             IN  IF ~r.ok THEN st3
                 ELSE IF Strip(Str(r.val)) # S_bin_base64 THEN st3
                 ELSE LET conv == b64decode(Strip(Str(value)))
                          val_name == Replace(name, S_text, S_nodetypedvalue)
                      IN  IF conv.ok
                          THEN set(st3, cx, val_name, StrV(conv.bytes), NoneV, TRUE)
                          ELSE st3

---------------------------------------------------------------------------
(* Context.__init__ *)

\* the constants the constructor writes into globals (two of the block)
SeededGlobals == Put(Put(EmptyDict, N_vbkeytab, IntV(9)), N_vba_vbkeytab, IntV(9))

Seed(g) == [k \in (DOMAIN g) \cup (DOMAIN SeededGlobals) |->
               IF k \in DOMAIN SeededGlobals THEN SeededGlobals[k] ELSE g[k]]

\* a constructor that copies the parent's globals instead of sharing them
MutContextCopyGlobals(dh, ofh, cfh, cs, _globals, _locals, context, engine, doc_vars) ==
    LET inherit == _globals = None /\ context # None
        ofh1 == IF inherit THEN ofh ELSE Append(ofh, EmptyDict)
        cfh1 == IF inherit THEN cfh ELSE Append(cfh, EmptyDict)
        of_ref == IF inherit THEN cs[context].open_files ELSE Len(ofh1)
        cf_ref == IF inherit THEN cs[context].closed_files ELSE Len(cfh1)
        dh1 == IF _globals = None /\ context = None THEN Append(dh, EmptyDict)
               ELSE IF _globals = None THEN Append(dh, dh[cs[context].globals]) ELSE dh
        g_ref == IF _globals # None THEN _globals
                 ELSE Len(dh1)
        dh2 == Append(dh1, IF _locals # None THEN dh1[_locals] ELSE EmptyDict)
        l_ref == Len(dh2)
        eng == IF engine # None THEN engine
               ELSE IF context # None THEN cs[context].engine
               ELSE None
        dh3 == IF doc_vars = None /\ context = None THEN Append(dh2, EmptyDict) ELSE dh2
        dv_ref == IF doc_vars # None THEN doc_vars
                  ELSE IF context # None THEN cs[context].doc_vars
                  ELSE Len(dh3)
    IN  [dicts |-> [dh3 EXCEPT ![g_ref] = Seed(@)],
         ofiles |-> ofh1,
         cfiles |-> cfh1,
         ctx |-> [globals |-> g_ref, locals |-> l_ref, doc_vars |-> dv_ref,
                  open_files |-> of_ref, closed_files |-> cf_ref, engine |-> eng,
                  loaded_excel |-> IF inherit THEN cs[context].loaded_excel ELSE None,
                  types |-> EmptyDict, with_prefix |-> <<>>]]

\* a constructor that keeps the locals mapping it is given instead of copying it
MutContextAliasLocals(dh, ofh, cfh, cs, _globals, _locals, context, engine, doc_vars) ==
    LET inherit == _globals = None /\ context # None
        ofh1 == IF inherit THEN ofh ELSE Append(ofh, EmptyDict)
        cfh1 == IF inherit THEN cfh ELSE Append(cfh, EmptyDict)
        of_ref == IF inherit THEN cs[context].open_files ELSE Len(ofh1)
        cf_ref == IF inherit THEN cs[context].closed_files ELSE Len(cfh1)
        dh1 == IF _globals = None /\ context = None THEN Append(dh, EmptyDict) ELSE dh
        g_ref == IF _globals # None THEN _globals
                 ELSE IF context # None THEN cs[context].globals
                 ELSE Len(dh1)
        dh2 == Append(dh1, IF _locals # None THEN dh1[_locals] ELSE EmptyDict)
        l_ref == IF _locals # None THEN _locals ELSE Len(dh2)
        eng == IF engine # None THEN engine
               ELSE IF context # None THEN cs[context].engine
               ELSE None
        dh3 == IF doc_vars = None /\ context = None THEN Append(dh2, EmptyDict) ELSE dh2
        dv_ref == IF doc_vars # None THEN doc_vars
                  ELSE IF context # None THEN cs[context].doc_vars
                  ELSE Len(dh3)
    IN  [dicts |-> [dh3 EXCEPT ![g_ref] = Seed(@)],
         ofiles |-> ofh1,
         cfiles |-> cfh1,
         ctx |-> [globals |-> g_ref, locals |-> l_ref, doc_vars |-> dv_ref,
                  open_files |-> of_ref, closed_files |-> cf_ref, engine |-> eng,
                  loaded_excel |-> IF inherit THEN cs[context].loaded_excel ELSE None,
                  types |-> EmptyDict, with_prefix |-> <<>>]]

\* the heaps and the Context object after Context(_globals, _locals, context,
\* engine, doc_vars); a reference is an index into a heap, None is no object
Context(dh, ofh, cfh, cs, _globals, _locals, context, engine, doc_vars) ==
    LET inherit == _globals = None /\ context # None
        ofh1 == IF inherit THEN ofh ELSE Append(ofh, EmptyDict)
        cfh1 == IF inherit THEN cfh ELSE Append(cfh, EmptyDict)
        of_ref == IF inherit THEN cs[context].open_files ELSE Len(ofh1)
        cf_ref == IF inherit THEN cs[context].closed_files ELSE Len(cfh1)
        dh1 == IF _globals = None /\ context = None THEN Append(dh, EmptyDict) ELSE dh
        g_ref == IF _globals # None THEN _globals
                 ELSE IF context # None THEN cs[context].globals
                 ELSE Len(dh1)
        dh2 == Append(dh1, IF _locals # None THEN dh1[_locals] ELSE EmptyDict)
        l_ref == Len(dh2)
        eng == IF engine # None THEN engine
               ELSE IF context # None THEN cs[context].engine
               ELSE None
        dh3 == IF doc_vars = None /\ context = None THEN Append(dh2, EmptyDict) ELSE dh2
        dv_ref == IF doc_vars # None THEN doc_vars
                  ELSE IF context # None THEN cs[context].doc_vars
                  ELSE Len(dh3)
    IN  [dicts |-> [dh3 EXCEPT ![g_ref] = Seed(@)],
         ofiles |-> ofh1,
         cfiles |-> cfh1,
         ctx |-> [globals |-> g_ref, locals |-> l_ref, doc_vars |-> dv_ref,
                  open_files |-> of_ref, closed_files |-> cf_ref, engine |-> eng,
                  loaded_excel |-> IF inherit THEN cs[context].loaded_excel ELSE None,
                  types |-> EmptyDict, with_prefix |-> <<>>]]

---------------------------------------------------------------------------
(* The run: the engine's own globals and document variables, then calls   *)

Engine == 1

\* the engine registers the document's procedures in its globals: here a
\* user Function named Len
EngineGlobals == Put(EmptyDict, N_len, ProcV(1))
EngineDocVars == EmptyDict

G0 == 1
D0 == 2

NoCall == [op |-> "init", ctx |-> 0, name |-> <<>>, value |-> NoneV, flag |-> FALSE,
           args |-> <<>>, res |-> KeyError, exc |-> "", level |-> 0, steps |-> <<>>,
           fatal |-> FALSE]

Store(c) == [d |-> dicts, ty |-> ctxs[c].types]

\* the module globals of vba_object and the interpreter's limits: no document
\* metadata read, no emulation deadline
World0 == [meta |-> [present |-> FALSE, attrs |-> EmptyDict],
           max_emulation_time |-> [present |-> FALSE, t |-> 0],
           now |-> 0,
           recursionlimit |-> RecursionLimit]

\* the root Context, as the engine builds it:
\* Context(_globals=engine.globals, engine=engine, doc_vars=engine.doc_vars,
\*         loaded_excel=wb)
RootWith(dv, wb, w, dir, ast) ==
    LET r == Context(<<EngineGlobals, dv>>, <<>>, <<>>, <<>>,
                     G0, None, None, Engine, D0)
    IN  /\ ctxs = <<[r.ctx EXCEPT !.loaded_excel = wb]>>
        /\ dicts = r.dicts
        /\ ofiles = r.ofiles
        /\ cfiles = r.cfiles
        /\ actions = <<>>
        /\ out_dir = dir
        /\ disk = EmptyDict
        /\ world = w
        /\ nodes = ast
        /\ last = NoCall
        /\ nops = 0

\* the root Context of a run that holds no parsed code
RootOf(dv, wb, w, dir) == RootWith(dv, wb, w, dir, <<>>)

Root(dir) == RootOf(EngineDocVars, None, World0, dir)

\* out_dir is None unless the driver configures it
Init == Root(NoneV)

GlobalsRefs == {ctxs[c].globals : c \in DOMAIN ctxs}
LocalsRefs == {ctxs[c].locals : c \in DOMAIN ctxs}
DocVarsRefs == {ctxs[c].doc_vars : c \in DOMAIN ctxs}

NewContext(_globals, _locals, context, engine, doc_vars) ==
    /\ Len(ctxs) < MaxCtx
    /\ nops < MaxOps
    /\ LET r == Context(dicts, ofiles, cfiles, ctxs, _globals, _locals, context,
                        engine, doc_vars)
       IN  /\ ctxs' = Append(ctxs, r.ctx)
           /\ dicts' = r.dicts
           /\ ofiles' = r.ofiles
           /\ cfiles' = r.cfiles
    /\ last' = [NoCall EXCEPT !.op = "new", !.ctx = Len(ctxs) + 1,
                              !.args = <<_globals, _locals, context, engine, doc_vars>>]
    /\ nops' = nops + 1
    /\ UNCHANGED <<actions, out_dir, world, nodes, disk>>

\* a With block entered or left: with_prefix assigned
WithPrefix(c, p) ==
    /\ nops < MaxOps
    /\ ctxs[c].with_prefix # p
    /\ ctxs' = [ctxs EXCEPT ![c].with_prefix = p]
    /\ last' = [NoCall EXCEPT !.op = "with", !.ctx = c, !.name = p]
    /\ nops' = nops + 1
    /\ UNCHANGED <<dicts, ofiles, cfiles, actions, out_dir, world, nodes, disk>>

Set(c, name, value, var_type, do_with_prefix) ==
    /\ nops < MaxOps
    /\ LET st == set(Store(c), ctxs[c], name, value, var_type, do_with_prefix)
       IN  /\ dicts' = st.d
           /\ ctxs' = [ctxs EXCEPT ![c].types = st.ty]
    /\ last' = [NoCall EXCEPT !.op = "set", !.ctx = c, !.name = name, !.value = value,
                              !.flag = do_with_prefix]
    /\ nops' = nops + 1
    /\ UNCHANGED <<ofiles, cfiles, actions, out_dir, world, nodes, disk>>

Get(c, name) ==
    /\ last' = [NoCall EXCEPT !.op = "get", !.ctx = c, !.name = name,
                              !.res = get(Store(c), ctxs[c], name)]
    /\ UNCHANGED <<ctxs, dicts, ofiles, cfiles, actions, out_dir, world, nodes, disk, nops>>

---------------------------------------------------------------------------
(* Simulated files *)

\* hashlib.sha256(raw_data).hexdigest(): the digest, named by what it digests
sha256_hexdigest(raw_data) == [sha256 |-> raw_data]

\* array.array('B', data).tostring(): defined on lists of bytes only
tostring(data) ==
    [ok |-> \A i \in 1..Len(data) : data[i] \in 0..255, raw |-> data]

\* s.rindex(ch) + 1 for a character that occurs in s
AfterLast(s, ch) == (CHOOSE i \in 1..Len(s) : s[i] = ch /\ \A j \in (i + 1)..Len(s) : s[j] # ch) + 1

\* the path dump_file writes a closed file to
short_name(dir, name) ==
    LET s0 == IF \E i \in 1..Len(name) : name[i] = 92 THEN AfterLast(name, 92) ELSE 1
        start == IF \E i \in 1..Len(name) : name[i] = 47 THEN AfterLast(name, 47) ELSE s0
    IN  dir \o Strip(SubSeq(name, start, Len(name)))

\* Context.open_file
open_file(c, fname) ==
    /\ nops < MaxOps
    /\ ofiles' = [ofiles EXCEPT ![ctxs[c].open_files] =
                     Put(@, fname, [name |-> fname, contents |-> <<>>])]
    /\ last' = [NoCall EXCEPT !.op = "open", !.ctx = c, !.name = fname]
    /\ nops' = nops + 1
    /\ UNCHANGED <<ctxs, dicts, cfiles, actions, out_dir, world, nodes, disk>>

\* a Put or Print statement: one byte appended to the contents of an open file
write_file(c, file_id, byte) ==
    /\ file_id \in DOMAIN ofiles[ctxs[c].open_files]
    /\ Len(ofiles[ctxs[c].open_files][file_id].contents) < MaxLen
    /\ ofiles' = [ofiles EXCEPT ![ctxs[c].open_files][file_id].contents = Append(@, byte)]
    /\ last' = [NoCall EXCEPT !.op = "write", !.ctx = c, !.name = file_id]
    /\ UNCHANGED <<ctxs, dicts, cfiles, actions, out_dir, world, nodes, disk, nops>>

\* Context.report_action: handed to the engine, which records it
report_action(c, acts, action, params, description) ==
    IF ctxs[c].engine = None
    THEN [exc |-> "AttributeError", actions |-> acts]
    ELSE [exc |-> "", actions |-> Append(acts, [action |-> action, params |-> params,
                                                description |-> description])]

\* dump_file reporting a hash for an identifier that is not open
MutDumpReportsMissing(c, file_id) ==
    IF file_id \in DOMAIN ofiles[ctxs[c].open_files]
    THEN [ofiles |-> ofiles, cfiles |-> cfiles, actions |-> actions,
          disk |-> disk, exc |-> "KeyError"]
    ELSE [ofiles |-> ofiles, cfiles |-> cfiles,
          actions |-> Append(actions, [action |-> A_DroppedFileHash,
                                       params |-> sha256_hexdigest(<<>>),
                                       description |-> D_FileName \o file_id]),
          disk |-> disk, exc |-> ""]

\* dump_file hashing the name of the file instead of its contents
MutDumpHashesName(c, file_id) ==
    LET of == ofiles[ctxs[c].open_files]
        same == [ofiles |-> ofiles, cfiles |-> cfiles, actions |-> actions,
                 disk |-> disk, exc |-> ""]
    IN  IF file_id \notin DOMAIN of THEN same
        ELSE
        LET name == Replace(of[file_id].name, S_hash, <<>>)
            data == of[file_id].contents
            moved == [same EXCEPT
                        !.cfiles[ctxs[c].closed_files] = Put(@, name, data),
                        !.ofiles[ctxs[c].open_files] = Del(@, file_id)]
            raw == tostring(data)
            rep == report_action(c, actions, A_DroppedFileHash,
                                 sha256_hexdigest(name), D_FileName \o name)
            path == short_name(out_dir.s, name)
        IN  IF ~raw.ok THEN [moved EXCEPT !.exc = "TypeError"]
            ELSE IF rep.exc # "" THEN [moved EXCEPT !.exc = rep.exc]
            ELSE IF out_dir = NoneV THEN [moved EXCEPT !.actions = rep.actions]
            \* file_count += 1 fails on the function's unassigned local and the
            \* bare except passes: the path stays as it is, taken or not
            ELSE IF path = out_dir.s THEN [moved EXCEPT !.actions = rep.actions]
            ELSE [moved EXCEPT !.actions = rep.actions,
                               !.disk = Put(@, path, raw.raw)]

\* Context.dump_file on the heaps, the reported actions and the disk of st
dump_file_in(st, c, file_id) ==
    LET of == st.ofiles[ctxs[c].open_files]
    IN  IF file_id \notin DOMAIN of THEN st
        ELSE
        LET name == Replace(of[file_id].name, S_hash, <<>>)
            data == of[file_id].contents
            moved == [st EXCEPT
                        !.cfiles[ctxs[c].closed_files] = Put(@, name, data),
                        !.ofiles[ctxs[c].open_files] = Del(@, file_id)]
            raw == tostring(data)
            rep == report_action(c, st.actions, A_DroppedFileHash,
                                 sha256_hexdigest(raw.raw), D_FileName \o name)
            path == short_name(out_dir.s, name)
        IN  IF ~raw.ok THEN [moved EXCEPT !.exc = "TypeError"]
            ELSE IF rep.exc # "" THEN [moved EXCEPT !.exc = rep.exc]
            ELSE IF out_dir = NoneV THEN [moved EXCEPT !.actions = rep.actions]
            \* file_count += 1 fails on the function's unassigned local and the
            \* bare except passes: the path stays as it is, taken or not
            ELSE IF path = out_dir.s THEN [moved EXCEPT !.actions = rep.actions]
            ELSE [moved EXCEPT !.actions = rep.actions,
                               !.disk = Put(@, path, raw.raw)]

\* the heaps, the reported actions and the disk as they are
Files == [ofiles |-> ofiles, cfiles |-> cfiles, actions |-> actions, disk |-> disk, exc |-> ""]

\* the heaps, the reported actions and the disk after Context.dump_file
dump_file_result(c, file_id) == dump_file_in(Files, c, file_id)

\* Context.dump_file
dump_file(c, file_id) ==
    /\ nops < MaxOps
    /\ LET r == dump_file_result(c, file_id)
       IN  /\ ofiles' = r.ofiles
           /\ cfiles' = r.cfiles
           /\ actions' = r.actions
           /\ disk' = r.disk
           /\ last' = [NoCall EXCEPT !.op = "dump", !.ctx = c, !.name = file_id,
                                     !.flag = file_id \in DOMAIN ofiles[ctxs[c].open_files],
                                     !.exc = r.exc]
    /\ nops' = nops + 1
    /\ UNCHANGED <<ctxs, dicts, out_dir, world, nodes>>

\* the orders a dict may hand out the keys in
Orders(keys) ==
    {o \in [1..Cardinality(keys) -> keys] : \A i, j \in DOMAIN o : i # j => o[i] # o[j]}

\* the loop of dump_all_files: an exception of a dump_file ends it
RECURSIVE DumpEach(_, _, _)
DumpEach(st, c, fnames) ==
    IF fnames = <<>> \/ st.exc # "" THEN st
    ELSE DumpEach(dump_file_in(st, c, Head(fnames)), c, Tail(fnames))

\* Context.dump_all_files
dump_all_files(c) ==
    /\ nops < MaxOps
    /\ \E fnames \in Orders(DOMAIN ofiles[ctxs[c].open_files]) :
          LET r == DumpEach(Files, c, fnames)
          IN  /\ ofiles' = r.ofiles
              /\ cfiles' = r.cfiles
              /\ actions' = r.actions
              /\ disk' = r.disk
              /\ last' = [NoCall EXCEPT !.op = "dump_all", !.ctx = c, !.exc = r.exc]
    /\ nops' = nops + 1
    /\ UNCHANGED <<ctxs, dicts, out_dir, world, nodes>>

SetNames == {N_A, N_vba_a, N_a_text, N_a_datatype, N_Len, N_vbkeytab}
SetValues == {StrV(S_bin_base64), StrV(V_aGk)}
VarTypes == {NoneV}
Prefixes == {<<>>, P_VBA}

\* every Context has a reporting engine: its own or its parent's
CtorArgs ==
    {a \in (GlobalsRefs \cup {None}) \X (LocalsRefs \cup {None})
           \X ((DOMAIN ctxs) \cup {None}) \X {None, Engine}
           \X (DocVarsRefs \cup {None}) : a[3] # None \/ a[4] # None}

\* a callee's Context: Context(context=caller), with or without globals and locals
CalleeArgs == {a \in CtorArgs : a[3] # None /\ a[4] = None /\ a[5] = None}

Next ==
    \/ \E a \in CalleeArgs : NewContext(a[1], a[2], a[3], a[4], a[5])
    \/ \E c \in DOMAIN ctxs, p \in Prefixes : WithPrefix(c, p)
    \/ \E c \in DOMAIN ctxs, n \in SetNames, v \in SetValues, t \in VarTypes,
          f \in BOOLEAN : Set(c, n, v, t, f)

\* calls on the symbol table of any Context of the call tree
Spec == Init /\ [][Next]_vars

LookupSetNames == {N_A, N_a_dollar, N_Len, N_vbkeytab}
LookupNames == {N_A, N_a, N_a_dollar, N_Len, N_len, N_chr, N_vbkeytab, N_vba_vbkeytab}

LookupNext ==
    \/ \E p \in Prefixes : WithPrefix(1, p)
    \/ \E n \in LookupSetNames, v \in SetValues, f \in BOOLEAN : Set(1, n, v, NoneV, f)
    \/ \E n \in LookupNames : Get(1, n)

\* lookups in a Context between its set calls and With blocks
LookupSpec == Init /\ [][LookupNext]_vars

FileIds == {F_1, F_plain1}
Bytes == {104, 105}
OutDir == <<111, 117, 116, 47>>   \* "out/"

FileInit == \E dir \in {NoneV, StrV(OutDir)} : Root(dir)

FileNext ==
    \/ \E a \in CtorArgs : NewContext(a[1], a[2], a[3], a[4], a[5])
    \/ \E c \in DOMAIN ctxs, f \in FileIds : open_file(c, f)
    \/ \E c \in DOMAIN ctxs, f \in FileIds, b \in Bytes : write_file(c, f, b)
    \/ \E c \in DOMAIN ctxs, f \in FileIds : dump_file(c, f)

\* files opened, written and closed through the Contexts of a run
FileSpec == FileInit /\ [][FileNext]_vars

---------------------------------------------------------------------------
(* vba_object.py: the safety check, the readers and eval_arg.  w is the    *)
(* world of the module: meta, max_emulation_time, the clock and the        *)
(* interpreter's recursion limit; level is the depth of the call stack.    *)

\* limits_exceeded comparing with >= instead of >
MutLimitsAtThreshold(level, w, throw_error) ==
    LET recursion_exceeded == 4 * level >= 3 * w.recursionlimit
        time_exceeded == /\ w.max_emulation_time.present
                         /\ w.now >= w.max_emulation_time.t
    IN  IF recursion_exceeded /\ throw_error
        THEN [exc |-> "RuntimeError: recursion depth", val |-> FALSE]
        ELSE IF time_exceeded /\ throw_error
        THEN [exc |-> "RuntimeError: emulation time", val |-> FALSE]
        ELSE [exc |-> "", val |-> recursion_exceeded \/ time_exceeded]

\* limits_exceeded, called with level frames on the stack; level > limit * .75
\* is 4 * level > 3 * limit
limits_exceeded(level, w, throw_error) ==
    LET recursion_exceeded == 4 * level > 3 * w.recursionlimit
        time_exceeded == /\ w.max_emulation_time.present
                         /\ w.now > w.max_emulation_time.t
    IN  IF recursion_exceeded /\ throw_error
        THEN [exc |-> "RuntimeError: recursion depth", val |-> FALSE]
        ELSE IF time_exceeded /\ throw_error
        THEN [exc |-> "RuntimeError: emulation time", val |-> FALSE]
        ELSE [exc |-> "", val |-> recursion_exceeded \/ time_exceeded]

\* an AST node (a VBA_Object): its text and its identity
NodeV(s, n) == [t |-> "node", s |-> s, n |-> n]
\* a MemberAccessExpression: its text and its place in Members
MemberV(s, n) == [t |-> "member", s |-> s, n |-> n]

\* isinstance(arg, VBA_Object) or isinstance(arg, VbaLibraryFunc); these are
\* the objects that have an eval method
HasEval(v) == v.t \in {"node", "member", "proc", "lib"}

\* what the eval method of a node or library function returns
EvalOf(v) == [t |-> "result", s |-> Str(v), n |-> v.n]

N_shape2 == <<115, 39, 50, 39>>   \* "s'2'"
N_shape1 == <<115, 39, 49, 39>>   \* "s'1'"
N_t == <<116>>   \* "t"

\* lhs and rhs[0] of the member access expressions of the run
Members ==
    <<[lhs |-> StrV(N_shape2), rhs0 |-> StrV(T_AlternativeText)],
      [lhs |-> StrV(N_t), rhs0 |-> StrV(T_AlternativeText)],
      [lhs |-> StrV(S_ActiveDocument), rhs0 |-> NodeV(N_shape1, 7)]>>

N_S == <<83>>   \* "S"
V_cell == <<99>>   \* "c"

V_Z1 == <<90, 49>>   \* "Z1"
V_AA1 == <<65, 65, 49>>   \* "AA1"
V_AG1 == <<65, 71, 49>>   \* "AG1"
V_B2 == <<66, 50>>   \* "B2"

\* the cells of sheet "S": A1, Z1, AA1, AG1, a number in A2, and B2
SheetS ==
    Put(Put(Put(Put(Put(Put(EmptyDict, <<0, 0>>, StrV(V_cell)), <<0, 25>>, StrV(V_Z1)),
                    <<0, 26>>, StrV(V_AA1)), <<0, 32>>, StrV(V_AG1)),
            <<1, 0>>, IntV(9)), <<1, 1>>, StrV(V_B2))

\* the xlrd workbook a Context may have loaded: the sheet "S"
TheWorkbook == Put(EmptyDict, N_S, SheetS)

RECURSIVE ColFold(_, _)
ColFold(x, s) == IF x = <<>> THEN s ELSE ColFold(Tail(x), s * 26 + x[1] - 65 + 1)

excel_col_letter_to_index(x) == ColFold(x, 0) - 1

\* the part of arg_str between key and the next ")", quotes removed
Between(arg_str, key) ==
    LET tmp_arg_str == Lower(arg_str)
        start == Index(tmp_arg_str, key) + Len(key)
        rest == From(tmp_arg_str, start)
    IN  IF ~Contains(rest, S_rparen) THEN [ok |-> FALSE, s |-> <<>>]
        ELSE [ok |-> TRUE,
              s |-> Replace(Replace(Strip(SubSeq(arg_str, start + 1,
                                                  start + Index(rest, S_rparen))),
                                    S_dquote, <<>>), S_squote, <<>>)]

\* sheet.cell(row, col) of _read_from_excel; a failure is caught and logged
CellValue(sheet, row, col) ==
    IF ~row.ok THEN Return(NoneV)
    ELSE IF <<row.n - 1, col>> \notin DOMAIN sheet THEN Return(NoneV)
    ELSE Return(StrV(Str(sheet[<<row.n - 1, col>>])))

\* _read_from_excel from the sheet name and the cell index it has cut out of
\* the text
ReadCell(cx, sheet_name, cell_index) ==
    IF ~sheet_name.ok \/ ~cell_index.ok THEN Raise("ValueError")
    \* from here on every failure is caught and logged
    ELSE IF cx.loaded_excel = None THEN Return(NoneV)
    ELSE IF sheet_name.s \notin DOMAIN TheWorkbook THEN Return(NoneV)
    ELSE CellValue(TheWorkbook[sheet_name.s],
                   ParseInt(SelectSeq(cell_index.s, LAMBDA c : ~IsAlpha(c))),
                   excel_col_letter_to_index(SelectSeq(cell_index.s, IsAlpha)))

_read_from_excel(arg, cx) ==
    IF ~(/\ Contains(Lower(Str(arg)), E_thisworkbook)
         /\ Contains(Lower(Str(arg)), E_sheets)
         /\ Contains(Lower(Str(arg)), E_range))
    THEN Return(NoneV)
    ELSE ReadCell(cx, Between(Str(arg), E_sheets), Between(Str(arg), E_range))

\* _read_from_object_text once the shape's text was looked up under lhs_str:
\* val is what get_doc_var has for it
ShapeTextOr(st, cx, val, lhs_str) ==
    IF val.exc # "" \/ val.val # NoneV THEN val
    ELSE IF ~Contains(lhs_str, S_squote) THEN Raise("ValueError")
    ELSE get_doc_var(st, cx,
             StrV(Lower(Upto(lhs_str, Index(lhs_str, S_squote) + 1) \o S_one
                        \o From(lhs_str, RIndex(lhs_str, S_squote))
                        \o T_TextRangeText)), {})

\* the shape a member access expression reads, resolved: lhs0 is the
\* expression, found what get has for its text
ShapeOf(lhs0, found) ==
    IF HasEval(lhs0) THEN EvalOf(lhs0)
    ELSE IF found.ok THEN found.val
    ELSE StrV(Str(lhs0))

\* _read_from_object_text from the resolved shape on
ShapeText(st, cx, lhs) ==
    ShapeTextOr(st, cx,
                get_doc_var(st, cx, StrV(Lower(Str(lhs) \o T_TextRangeText)), {}),
                Str(lhs))

_read_from_object_text(st, cx, arg) ==
    IF ~(/\ \/ EndsWith(Str(arg), T_TextRangeText)
            \/ EndsWith(Str(arg), T_AlternativeText)
            \/ EndsWith(Str(arg), T_ContainingRange)
         /\ arg.t = "member")
    THEN Return(NoneV)
    ELSE IF Str(Members[arg.n].lhs) = S_ActiveDocument
    THEN ShapeText(st, cx, ShapeOf(Members[arg.n].rhs0,
                                   get(st, cx, Str(Members[arg.n].rhs0))))
    ELSE ShapeText(st, cx, ShapeOf(Members[arg.n].lhs,
                                   get(st, cx, Str(Members[arg.n].lhs))))

\* the name between the parentheses of a document accessor
AccessorName(tmp, shape) ==
    Strip(Replace(Replace(Replace(Replace(Replace(Replace(tmp,
        shape, <<>>), S_rparen, <<>>), S_squote, <<>>), S_dquote, <<>>),
        S_value, <<>>), S_lparen, <<>>))

\* the first of the names wild_name0 .. wild_name10 that get finds
WildHits(st, cx, wild_name) ==
    {i \in 0..10 : get(st, cx, wild_name \o Digits(i)).ok}

\* re.match(r"[a-zA-Z_][\w\d]*", s)
IsVarName(s) == s # <<>> /\ (IsAlpha(s[1]) \/ s[1] = 95)

\* a call's outcome and the steps of the resolution it went through
Out(r, steps, fatal) == [exc |-> r.exc, val |-> r.val, steps |-> steps, fatal |-> fatal]

RECURSIVE eval_arg(_, _, _, _, _, _)

\* the while loop of the dotted-name chain: the first suffix of arg, cut at
\* its dots, that get finds
RECURSIVE Peel(_, _, _)
Peel(st, cx, arg_peeled) ==
    IF ~Contains(arg_peeled, S_dot) THEN KeyError
    ELSE LET val == get(st, cx, Lower(arg_peeled))
         IN  IF val.ok THEN val
             ELSE Peel(st, cx, From(arg_peeled, Index(arg_peeled, S_dot) + 1))

\* an accessor that has resolved the text: [hit, exc, val]
Got(r) == [hit |-> TRUE, exc |-> r.exc, val |-> r.val]

\* a call that raised or returned something that is not None
NotNone(r) == r.exc # "" \/ r.val # NoneV

\* the wildcard read of an object's fields: the variable wild_name<i> of the
\* least i that get finds
WildField(st, cx, wild_name, hits) ==
    IF hits # {}
    THEN Got(Return(get(st, cx, wild_name
                           \o Digits(CHOOSE i \in hits : \A j \in hits : i <= j)).val))
    ELSE [hit |-> FALSE, exc |-> "", val |-> NoneV]

\* the accessors in the order eval_arg tries them: prop is the metadata
\* attribute an Item accessor names, builtin, variable and custom what
\* get_doc_var has for the name between the parentheses, wild the wildcard read
AccessorsIn(w, tmp, prop, builtin, variable, custom, wild) ==
    IF StartsWith(tmp, M_item)
    THEN IF ~w.meta.present THEN Got(Return(StrV(<<>>)))
         ELSE IF prop \notin DOMAIN w.meta.attrs THEN Got(Return(StrV(<<>>)))
         ELSE Got(Return(w.meta.attrs[prop]))
    ELSE IF StartsWith(tmp, M_builtin) /\ NotNone(builtin) THEN Got(builtin)
    ELSE IF StartsWith(tmp, M_variables) /\ NotNone(variable) THEN Got(variable)
    ELSE IF StartsWith(tmp, M_custom) /\ NotNone(custom) THEN Got(custom)
    ELSE wild

\* the accessors of the stripped, lower-cased text tmp
AccessorsOf(st, cx, w, tmp) ==
    AccessorsIn(w, tmp,
        Lower(Strip(Replace(Replace(Replace(tmp, M_item, <<>>), S_rparen, <<>>),
                            S_squote, <<>>))),
        get_doc_var(st, cx,
            StrV(Strip(Replace(Replace(Replace(tmp, M_builtin, <<>>),
                                       S_rparen, <<>>), S_squote, <<>>))), {}),
        get_doc_var(st, cx, StrV(AccessorName(tmp, M_variables)), {}),
        get_doc_var(st, cx, StrV(AccessorName(tmp, M_custom)), {}),
        WildField(st, cx, Upto(tmp, Index(tmp, S_dot)) \o S_star,
                  WildHits(st, cx, Upto(tmp, Index(tmp, S_dot)) \o S_star)))

\* eval_arg from the document accessors on (text with a ".", nothing found
\* before): [hit, exc, val]
Accessors(st, cx, w, arg) == AccessorsOf(st, cx, w, Strip(Lower(arg.s)))

\* eval_arg from the function of a dotted name on: func is what get finds
\* for the text after the last ".", r the outcome of the nested eval_arg on
\* it.  The nested call is inside a try whose except Exception only logs.
FromFunction(arg, func, r, rest, literal, s_func, s_rest) ==
    LET \* a limit error was raised by the nested call
        below == func.ok /\ r.fatal
    IN  IF func.ok /\ r.exc = ""
        THEN IF r.val # func.val
             THEN Out(Return(r.val), s_func, below)
             ELSE Out(Return(arg), s_func, below)
        ELSE IF rest.hit
        THEN Out(rest, s_rest, below)
        ELSE Out(Return(literal), s_rest \o <<"literal">>, below)

\* the nested eval_arg on the function a dotted name ends in
Nested(st, cx, w, func, level) ==
    IF func.ok THEN eval_arg(st, cx, w, func.val, TRUE, level + 1)
    ELSE Out(Return(NoneV), <<>>, FALSE)

\* FromText that keeps the NUL bytes of the decoded text
MutFromTextKeepNul(text, val_decode, literal, steps) ==
    IF text.ok
    THEN IF text.val.t = "str" /\ val_decode.ok
         THEN Out(Return(StrV(val_decode.bytes)), steps, FALSE)
         ELSE Out(Return(text.val), steps, FALSE)
    ELSE Out(Return(literal), steps \o <<"literal">>, FALSE)

\* the .nodetypedvalue fallback: text is what get has for the sibling .text
FromText(text, val_decode, literal, steps) ==
    IF text.ok
    THEN IF text.val.t = "str" /\ val_decode.ok
         THEN Out(Return(StrV(Replace(val_decode.bytes, S_nul, <<>>))), steps, FALSE)
         ELSE Out(Return(text.val), steps, FALSE)
    ELSE Out(Return(literal), steps \o <<"literal">>, FALSE)

\* the strategies of eval_arg in their order, each given what it yields:
\* excel_val the cell read, obj_text_val the shape text, var the variable of
\* the text, text the .nodetypedvalue fallback, rapt the .rapt.value of a
\* selected item, doc_var_val the document variable, peeled the dotted-name
\* chain, tail the function and accessor steps
Strategies(arg, low, literal, excel_val, obj_text_val, var, text, rapt, doc_var_val, peeled, tail) ==
    IF NotNone(excel_val) THEN Out(excel_val, <<"excel">>, FALSE)
    ELSE IF NotNone(obj_text_val)
    THEN Out(obj_text_val, <<"excel", "object_text">>, FALSE)
    ELSE IF HasEval(arg)
    THEN Out(Return(EvalOf(arg)), <<"excel", "object_text", "eval">>, FALSE)
    ELSE IF arg.t # "str"
    THEN Out(Return(literal), <<"excel", "object_text", "literal">>, FALSE)
    ELSE IF var.ok
    THEN Out(Return(var.val), <<"excel", "object_text", "get">>, FALSE)
    ELSE IF Contains(low, S_nodetypedvalue) THEN text
    ELSE IF Contains(low, S_selecteditem)
    THEN IF rapt.ok
         THEN Out(Return(rapt.val),
                  <<"excel", "object_text", "get", "selecteditem">>, FALSE)
         ELSE Out(Return(literal),
                  <<"excel", "object_text", "get", "selecteditem", "literal">>, FALSE)
    ELSE IF ~Contains(low, S_dot)
    THEN Out(Return(literal), <<"excel", "object_text", "get", "literal">>, FALSE)
    ELSE IF NotNone(doc_var_val)
    THEN Out(doc_var_val, <<"excel", "object_text", "get", "doc_var">>, FALSE)
    ELSE IF peeled.ok
    THEN Out(Return(peeled.val),
             <<"excel", "object_text", "get", "doc_var", "peel">>, FALSE)
    ELSE tail

\* NULL for a text that is a variable name and is to be treated as one
Literal(arg, treat_as_var_name) ==
    IF treat_as_var_name /\ IsVarName(Str(arg)) THEN StrV(S_NULL) ELSE arg

\* the text after the last "."
LastName(low) == From(low, RIndex(low, S_dot) + 1)

\* eval_arg; the steps of its result name the strategies it has gone through,
\* fatal tells that the safety check has failed in the call or beneath it
eval_arg(st, cx, w, arg, treat_as_var_name, level) ==
    IF limits_exceeded(level + 1, w, FALSE).val
    THEN Out(Raise("RuntimeError"), <<>>, TRUE)
    ELSE Strategies(arg, Lower(arg.s), Literal(arg, treat_as_var_name),
            _read_from_excel(arg, cx),
            _read_from_object_text(st, cx, arg),
            get(st, cx, arg.s),
            FromText(get(st, cx, Replace(Lower(arg.s), S_nodetypedvalue, S_text)),
                     b64decode(Str(get(st, cx, Replace(Lower(arg.s),
                                                       S_nodetypedvalue, S_text)).val)),
                     Literal(arg, treat_as_var_name),
                     <<"excel", "object_text", "get", "nodetypedvalue">>),
            get(st, cx, Replace(Lower(arg.s), S_selecteditem, S_rapt_value)),
            get_doc_var(st, cx, arg, {}),
            Peel(st, cx, arg.s),
            FromFunction(arg, get(st, cx, LastName(Lower(arg.s))),
                Nested(st, cx, w, get(st, cx, LastName(Lower(arg.s))), level),
                Accessors(st, cx, w, arg),
                Literal(arg, treat_as_var_name),
                <<"excel", "object_text", "get", "doc_var", "peel", "function">>,
                <<"excel", "object_text", "get", "doc_var", "peel", "function",
                  "accessors">>))

---------------------------------------------------------------------------
(* Document variables *)

\* Context.get_doc_var called by a statement
GetDocVar(c, var) ==
    /\ LET r == get_doc_var(Store(c), ctxs[c], var, {})
       IN  last' = [NoCall EXCEPT !.op = "get_doc_var", !.ctx = c, !.value = var,
                                  !.res = [ok |-> r.exc = "", val |-> r.val],
                                  !.exc = r.exc]
    /\ UNCHANGED <<ctxs, dicts, ofiles, cfiles, actions, out_dir, world, nodes, disk, nops>>

\* the document variables the engine has read from the document
DocVarSets ==
    {EmptyDict,
     Put(EmptyDict, N_x, StrV(V_payload)),
     Put(EmptyDict, S_star, StrV(V_wild)),
     Put(Put(EmptyDict, N_x, StrV(V_payload)), S_star, StrV(V_wild))}

DocSetNames == {N_A, N_b}
DocSetValues == {StrV(N_x), StrV(N_a), StrV(N_b)}
DocVarNames == {StrV(N_X), StrV(N_A), StrV(N_b), StrV(N_vbkeytab), StrV(N_zz), IntV(9)}

DocInit == \E dv \in DocVarSets : RootOf(dv, None, World0, NoneV)

DocNext ==
    \/ \E n \in DocSetNames, v \in DocSetValues : Set(1, n, v, NoneV, TRUE)
    \/ \E var \in DocVarNames : GetDocVar(1, var)

\* document variables looked up between the assignments of a run
DocSpec == DocInit /\ [][DocNext]_vars

A_abc == <<97, 46, 98, 46, 99>>   \* "a.b.c"
A_alen == <<97, 46, 108, 101, 110>>   \* "a.len"
A_ac == <<97, 46, 99>>   \* "a.c"
N_c == <<99>>   \* "c"
A_var == <<65, 99, 116, 105, 118, 101, 68, 111, 99, 117, 109, 101, 110, 116, 46, 86, 97, 114, 105, 97, 98, 108, 101, 115, 40, 39, 88, 39, 41, 46, 86, 97, 108, 117, 101>>   \* "ActiveDocument.Variables('X').Value"
A_var_lower == <<97, 99, 116, 105, 118, 101, 100, 111, 99, 117, 109, 101, 110, 116, 46, 118, 97, 114, 105, 97, 98, 108, 101, 115, 40, 39, 120, 39, 41, 46, 118, 97, 108, 117, 101>>   \* "activedocument.variables('x').value"
A_var_upper == <<65, 67, 84, 73, 86, 69, 68, 79, 67, 85, 77, 69, 78, 84, 46, 86, 65, 82, 73, 65, 66, 76, 69, 83, 40, 39, 88, 39, 41, 46, 86, 65, 76, 85, 69>>   \* "ACTIVEDOCUMENT.VARIABLES('X').VALUE"
A_var_paren == <<65, 99, 116, 105, 118, 101, 68, 111, 99, 117, 109, 101, 110, 116, 46, 86, 97, 114, 105, 97, 98, 108, 101, 115, 40, 39, 118, 40, 49, 41, 39, 41, 46, 86, 97, 108, 117, 101>>   \* "ActiveDocument.Variables('v(1)').Value"
N_v_paren == <<118, 40, 49, 41>>   \* "v(1)"
A_item == <<65, 99, 116, 105, 118, 101, 68, 111, 99, 117, 109, 101, 110, 116, 46, 73, 116, 101, 109, 40, 39, 84, 105, 116, 108, 101, 39, 41>>   \* "ActiveDocument.Item('Title')"
N_title == <<116, 105, 116, 108, 101>>   \* "title"
A_cell == <<84, 104, 105, 115, 87, 111, 114, 107, 98, 111, 111, 107, 46, 83, 104, 101, 101, 116, 115, 40, 39, 83, 39, 41, 46, 82, 97, 110, 103, 101, 40, 39, 65, 49, 39, 41>>   \* "ThisWorkbook.Sheets('S').Range('A1')"
A_open == <<84, 104, 105, 115, 87, 111, 114, 107, 98, 111, 111, 107, 46, 83, 104, 101, 101, 116, 115, 40, 82, 97, 110, 103, 101, 40>>   \* "ThisWorkbook.Sheets(Range("
A_a_nodetypedvalue == <<97, 46, 110, 111, 100, 101, 84, 121, 112, 101, 100, 86, 97, 108, 117, 101>>   \* "a.nodeTypedValue"
A_shape2_text == <<115, 39, 50, 39, 46, 65, 108, 116, 101, 114, 110, 97, 116, 105, 118, 101, 84, 101, 120, 116>>   \* "s'2'.AlternativeText"
A_t_text == <<116, 46, 65, 108, 116, 101, 114, 110, 97, 116, 105, 118, 101, 84, 101, 120, 116>>   \* "t.AlternativeText"
A_doc_shape == <<65, 99, 116, 105, 118, 101, 68, 111, 99, 117, 109, 101, 110, 116, 46, 115, 39, 49, 39, 46, 84, 101, 120, 116, 70, 114, 97, 109, 101, 46, 84, 101, 120, 116, 82, 97, 110, 103, 101, 46, 84, 101, 120, 116>>   \* "ActiveDocument.s'1'.TextFrame.TextRange.Text"
N_shape1_text == <<115, 39, 49, 39, 46, 116, 101, 120, 116, 102, 114, 97, 109, 101, 46, 116, 101, 120, 116, 114, 97, 110, 103, 101, 46, 116, 101, 120, 116>>   \* "s'1'.textframe.textrange.text"
N_n == <<110>>   \* "n"
V_txt == <<116, 120, 116>>   \* "txt"
V_T == <<84>>   \* "T"
V_pay2 == <<112, 97, 50>>   \* "pa2"

\* eval_arg called on an argument of a statement, level frames deep
EvalArg(c, arg, treat_as_var_name, level) ==
    /\ LET r == eval_arg(Store(c), ctxs[c], world, arg, treat_as_var_name, level)
       IN  last' = [NoCall EXCEPT !.op = "eval_arg", !.ctx = c, !.value = arg,
                                  !.flag = treat_as_var_name, !.level = level,
                                  !.res = [ok |-> r.exc = "", val |-> r.val],
                                  !.exc = r.exc, !.steps = r.steps,
                                  !.fatal = r.fatal]
    /\ UNCHANGED <<ctxs, dicts, ofiles, cfiles, actions, out_dir, world, nodes, disk, nops>>

\* the document variables of the run: none; some; only the wildcard
EvalDocVars ==
    {EmptyDict,
     Put(Put(Put(EmptyDict, N_x, StrV(V_payload)), N_v_paren, StrV(V_pay2)),
         N_shape1_text, StrV(V_txt)),
     Put(EmptyDict, S_star, StrV(V_wild))}

\* the module's world: as imported; with the document's metadata read; with
\* an emulation deadline that has passed
Worlds ==
    {World0,
     [World0 EXCEPT !.meta = [present |-> TRUE,
                              attrs |-> Put(EmptyDict, N_title, StrV(V_T))]],
     [World0 EXCEPT !.max_emulation_time = [present |-> TRUE, t |-> 0], !.now = 1]}

\* the assignments of the run
EvalSets == {<<N_c, StrV(A_ac)>>, <<N_a_text, StrV(V_aGk)>>, <<N_A, StrV(V_aGk)>>,
             <<A_open, StrV(V_aGk)>>}

EvalArgs ==
    {StrV(A_abc), StrV(A_alen), StrV(A_ac), StrV(N_A),
     StrV(A_var), StrV(A_var_lower), StrV(A_var_upper), StrV(A_var_paren),
     StrV(A_item), StrV(A_cell), StrV(A_open), StrV(A_a_nodetypedvalue),
     NodeV(N_n, 4), NodeV(A_cell, 5),
     MemberV(A_shape2_text, 1), MemberV(A_t_text, 2), MemberV(A_doc_shape, 3),
     IntV(9)}

\* the stack depths eval_arg is called at: shallow, and the two depths
\* around the point where the safety check starts to fail
Levels == {1, (3 * RecursionLimit) \div 4 - 1, (3 * RecursionLimit) \div 4}

EvalInit ==
    \E dv \in EvalDocVars, wb \in {None, 1}, w \in Worlds : RootOf(dv, wb, w, NoneV)

\* a run is some assignments and then the resolution of one argument
EvalNext ==
    \/ \E s \in EvalSets : last.op # "eval_arg" /\ Set(1, s[1], s[2], NoneV, TRUE)
    \/ \E arg \in EvalArgs, treat \in BOOLEAN, level \in Levels :
          last.op # "eval_arg" /\ EvalArg(1, arg, treat, level)

EvalSpec == EvalInit /\ [][EvalNext]_vars

---------------------------------------------------------------------------
(* vba_object.py: coercion, and runs of the two pure functions *)

\* the "NULL" marker or None
IsNull(obj) == obj = NoneV \/ obj = StrV(S_NULL)

\* coerce_to_str without the test for Null
MutCoerceNoNull(obj) == Return(StrV(Str(obj)))

coerce_to_str(obj) ==
    IF IsNull(obj) THEN Return(StrV(<<>>))
    ELSE Return(StrV(Str(obj)))

\* int(obj) of an int or of a str
int(obj) ==
    IF obj.t = "int" THEN Return(obj)
    ELSE IF obj.t = "str"
    THEN IF ParseInt(obj.s).ok THEN Return(IntV(ParseInt(obj.s).n))
         ELSE Raise("ValueError")
    ELSE Raise("TypeError")

coerce_to_int(obj) ==
    IF IsNull(obj) THEN Return(IntV(0))
    ELSE int(obj)

\* True and False
BoolV(b) == [t |-> "bool", s |-> <<>>, n |-> IF b THEN 1 ELSE 0]

\* the characters of the coerced texts: N, U, L, 1, "-" and the blank
CoerceChars == {78, 85, 76, 49, 45, 32}

CoerceInputs ==
    {NoneV, StrV(S_NULL), StrV(<<>>)}
    \cup {IntV(n) : n \in (-MaxInt)..MaxInt}
    \cup {StrV(<<a>>) : a \in CoerceChars}
    \cup {StrV(<<a, b>>) : a \in CoerceChars, b \in CoerceChars}

CoerceToStr(obj) ==
    /\ LET r == coerce_to_str(obj)
       IN  last' = [NoCall EXCEPT !.op = "coerce_to_str", !.value = obj,
                                  !.res = [ok |-> r.exc = "", val |-> r.val],
                                  !.exc = r.exc]
    /\ UNCHANGED <<ctxs, dicts, ofiles, cfiles, actions, out_dir, world, nodes, disk, nops>>

\* coerce_to_str applied to what coerce_to_str has just returned for last.value
CoerceAgain ==
    /\ last.op = "coerce_to_str"
    /\ ~last.flag
    /\ LET r == coerce_to_str(last.res.val)
       IN  last' = [NoCall EXCEPT !.op = "coerce_to_str", !.value = last.res.val,
                                  !.flag = TRUE, !.args = <<last.value>>,
                                  !.res = [ok |-> r.exc = "", val |-> r.val],
                                  !.exc = r.exc]
    /\ UNCHANGED <<ctxs, dicts, ofiles, cfiles, actions, out_dir, world, nodes, disk, nops>>

CoerceToInt(obj) ==
    /\ LET r == coerce_to_int(obj)
       IN  last' = [NoCall EXCEPT !.op = "coerce_to_int", !.value = obj,
                                  !.res = [ok |-> r.exc = "", val |-> r.val],
                                  !.exc = r.exc]
    /\ UNCHANGED <<ctxs, dicts, ofiles, cfiles, actions, out_dir, world, nodes, disk, nops>>

CoerceNext ==
    \/ \E obj \in CoerceInputs : CoerceToStr(obj)
    \/ CoerceAgain
    \/ \E obj \in CoerceInputs : CoerceToInt(obj)

\* coercions of the values a run produces
CoerceSpec == Init /\ [][CoerceNext]_vars

\* limits_exceeded called with level frames on the stack
LimitsExceeded(level, throw_error) ==
    /\ LET r == limits_exceeded(level, world, throw_error)
       IN  last' = [NoCall EXCEPT !.op = "limits_exceeded", !.level = level,
                                  !.flag = throw_error,
                                  !.res = [ok |-> r.exc = "", val |-> BoolV(r.val)],
                                  !.exc = r.exc]
    /\ UNCHANGED <<ctxs, dicts, ofiles, cfiles, actions, out_dir, world, nodes, disk, nops>>

\* the clock goes on
Tick ==
    /\ world.now < MaxTime
    /\ world' = [world EXCEPT !.now = @ + 1]
    /\ last' = [NoCall EXCEPT !.op = "tick"]
    /\ UNCHANGED <<ctxs, dicts, ofiles, cfiles, actions, out_dir, nodes, disk, nops>>

\* recursion limits of the interpreter and deadlines of the emulation
GovWorlds ==
    {[World0 EXCEPT !.recursionlimit = l, !.max_emulation_time = d] :
        l \in {RecursionLimit, 100},
        d \in {[present |-> FALSE, t |-> 0], [present |-> TRUE, t |-> 1]}}

GovLevels == (1..(RecursionLimit + 1)) \cup {50, 75, 76}

GovInit == \E w \in GovWorlds : RootOf(EngineDocVars, None, w, NoneV)

GovNext ==
    \/ \E level \in GovLevels, throw_error \in BOOLEAN :
          LimitsExceeded(level, throw_error)
    \/ Tick

\* the safety check consulted while the clock runs
GovSpec == GovInit /\ [][GovNext]_vars

---------------------------------------------------------------------------
(* Context: the lookups by name, whatever the case of the name *)

T_Long == <<76, 111, 110, 103>>   \* "Long"

\* Context.contains_user_defined
contains_user_defined(st, cx, name) ==
    name \in DOMAIN st.d[cx.locals] \/ name \in DOMAIN st.d[cx.globals]

\* Context.get_type
get_type(st, cx, var) ==
    IF var.t # "str" THEN NoneV
    ELSE IF Lower(var.s) \notin DOMAIN st.ty THEN NoneV
    ELSE st.ty[Lower(var.s)]

ContainsCall(c, name, local) ==
    /\ last' = [NoCall EXCEPT !.op = "contains", !.ctx = c, !.name = name,
                              !.flag = local,
                              !.res = Hit(BoolV(contains(Store(c), ctxs[c], name, local)))]
    /\ UNCHANGED <<ctxs, dicts, ofiles, cfiles, actions, out_dir, world, nodes, disk, nops>>

ContainsUserDefined(c, name) ==
    /\ last' = [NoCall EXCEPT !.op = "contains_user_defined", !.ctx = c, !.name = name,
                              !.res = Hit(BoolV(contains_user_defined(Store(c), ctxs[c],
                                                                      name)))]
    /\ UNCHANGED <<ctxs, dicts, ofiles, cfiles, actions, out_dir, world, nodes, disk, nops>>

GetType(c, name) ==
    /\ last' = [NoCall EXCEPT !.op = "get_type", !.ctx = c, !.name = name,
                              !.res = Hit(get_type(Store(c), ctxs[c], StrV(name)))]
    /\ UNCHANGED <<ctxs, dicts, ofiles, cfiles, actions, out_dir, world, nodes, disk, nops>>

CaseSetNames == {N_A, N_x}
CaseNames == {N_A, N_a, N_X, N_x, N_Len, N_len}
CaseTypes == {NoneV, StrV(T_Long)}

CaseInit == \E dv \in DocVarSets : RootOf(dv, None, World0, NoneV)

CaseNext ==
    \/ \E n \in CaseSetNames, v \in SetValues, t \in CaseTypes : Set(1, n, v, t, TRUE)
    \/ \E n \in CaseNames : Get(1, n)
    \/ \E n \in CaseNames, local \in BOOLEAN : ContainsCall(1, n, local)
    \/ \E n \in CaseNames : ContainsUserDefined(1, n)
    \/ \E n \in CaseNames : GetType(1, n)
    \/ \E n \in CaseNames : GetDocVar(1, StrV(n))

\* names set in one case and looked up in another
CaseSpec == CaseInit /\ [][CaseNext]_vars

---------------------------------------------------------------------------
(* vba_object.py: VBA_Object.  nodes is the heap of the parsed objects; a  *)
(* node holds the values of its __dict__ in the order items() yields them  *)
(* and its _children.  A value is a VBA_Object (kind "obj"), a list or     *)
(* ParseResults ("list"), a dict ("dict") or anything else ("other"); its  *)
(* items are references to nodes, 0 standing for an item that is not a     *)
(* VBA_Object.                                                             *)

Value(kind, items) == [kind |-> kind, items |-> items]

\* a node as the constructor leaves it: _children is None
Node(dict) == [dict |-> dict, memo |-> FALSE, _children |-> <<>>]

\* the VBA_Objects a value of __dict__ contributes to the children
ChildrenIn(value) ==
    IF value.kind \in {"obj", "list", "dict"}
    THEN SelectSeq(value.items, LAMBDA i : i # 0)
    ELSE <<>>

RECURSIVE Collect(_, _)
Collect(dict, r) ==
    IF dict = <<>> THEN r ELSE Collect(Tail(dict), r \o ChildrenIn(Head(dict)))

\* get_children once the safety check has passed
ChildrenOf(ns, n) ==
    IF ns[n].memo THEN [exc |-> "", val |-> ns[n]._children, nodes |-> ns]
    ELSE [exc |-> "", val |-> Collect(ns[n].dict, <<>>),
          nodes |-> [ns EXCEPT ![n].memo = TRUE,
                               ![n]._children = Collect(ns[n].dict, <<>>)]]

\* VBA_Object.get_children, its frame being the level-th of the stack
get_children(ns, w, n, level) ==
    IF limits_exceeded(level + 1, w, TRUE).exc # ""
    THEN [exc |-> limits_exceeded(level + 1, w, TRUE).exc, val |-> <<>>, nodes |-> ns]
    ELSE ChildrenOf(ns, n)

RECURSIVE accept(_, _, _, _)
RECURSIVE AcceptAll(_, _, _, _, _, _)

\* the loop of accept after child i has accepted the visitor with outcome r
AcceptNext(w, children, i, level, visited, r) ==
    IF r.exc # ""
    THEN [exc |-> r.exc, visited |-> visited \o r.visited, nodes |-> r.nodes]
    ELSE AcceptAll(r.nodes, w, children, i + 1, level, visited \o r.visited)

\* the loop of accept from child i on: each child accepts the visitor in a
\* frame at level
AcceptAll(ns, w, children, i, level, visited) ==
    IF i > Len(children) THEN [exc |-> "", visited |-> visited, nodes |-> ns]
    ELSE AcceptNext(w, children, i, level, visited, accept(ns, w, children[i], level))

\* accept visiting the node after its children
MutAcceptVisitLast(w, n, level, gc) ==
    IF gc.exc # "" THEN [exc |-> gc.exc, visited |-> <<>>, nodes |-> gc.nodes]
    ELSE [AcceptAll(gc.nodes, w, gc.val, 1, level + 1, <<>>)
             EXCEPT !.visited = @ \o <<n>>]

\* accept from visitor.visit(self) on: gc is what self.get_children() gives
VisitThenChildren(w, n, level, gc) ==
    IF gc.exc # "" THEN [exc |-> gc.exc, visited |-> <<n>>, nodes |-> gc.nodes]
    ELSE AcceptAll(gc.nodes, w, gc.val, 1, level + 1, <<n>>)

\* VBA_Object.accept, its frame being the level-th of the stack; visited is
\* the sequence of the nodes visitor.visit has been called on
accept(ns, w, n, level) ==
    IF limits_exceeded(level + 1, w, TRUE).exc # ""
    THEN [exc |-> limits_exceeded(level + 1, w, TRUE).exc, visited |-> <<>>,
          nodes |-> ns]
    ELSE VisitThenChildren(w, n, level, get_children(ns, w, n, level + 1))

Accept(n, level) ==
    /\ LET r == accept(nodes, world, n, level)
       IN  /\ nodes' = r.nodes
           /\ last' = [NoCall EXCEPT !.op = "accept", !.ctx = n, !.level = level,
                                     !.exc = r.exc, !.steps = r.visited,
                                     !.fatal = r.exc # ""]
    /\ UNCHANGED <<ctxs, dicts, ofiles, cfiles, actions, out_dir, world, disk, nops>>

GetChildren(n, level) ==
    /\ LET r == get_children(nodes, world, n, level)
       IN  /\ nodes' = r.nodes
           /\ last' = [NoCall EXCEPT !.op = "get_children", !.ctx = n, !.level = level,
                                     !.exc = r.exc, !.steps = r.val,
                                     !.fatal = r.exc # ""]
    /\ UNCHANGED <<ctxs, dicts, ofiles, cfiles, actions, out_dir, world, disk, nops>>

Leaf == Node(<<Value("other", <<>>)>>)

\* a chain of k nodes, each the only child of the one before
Chain(k) ==
    [i \in 1..k |-> IF i < k THEN Node(<<Value("other", <<>>), Value("obj", <<i + 1>>)>>)
                    ELSE Leaf]

\* the parsed code of the runs: a statement with a name and a list of two
\* arguments, the first with one of its own; a chain as deep as the
\* interpreter's stack; two nodes that hold each other
Asts ==
    {<<Node(<<Value("other", <<>>), Value("obj", <<2>>), Value("list", <<0, 3>>)>>),
       Node(<<Value("dict", <<0, 4>>)>>), Leaf, Leaf>>,
     Chain(RecursionLimit),
     <<Node(<<Value("obj", <<2>>)>>), Node(<<Value("list", <<1>>)>>)>>}

\* the depths of the stack a traversal starts at
AstLevels == {1, 2}

AstInit ==
    \E ast \in Asts, w \in {World0,
                            [World0 EXCEPT !.max_emulation_time = [present |-> TRUE, t |-> 0],
                                           !.now = 1]} :
        RootWith(EngineDocVars, None, w, NoneV, ast)

AstNext ==
    \/ \E n \in DOMAIN nodes, level \in AstLevels : Accept(n, level)
    \/ \E n \in DOMAIN nodes, level \in AstLevels : GetChildren(n, level)

\* visitors accepted and children enumerated on the parsed code of a run
AstSpec == AstInit /\ [][AstNext]_vars

---------------------------------------------------------------------------
(* Runs for the typed-value hack: the .text field of a node is assigned    *)
(* and its .nodeTypedValue is resolved.                                    *)

V_AGg == <<65, 71, 103, 61>>   \* "AGg=", the base64 form of "\0h"
A_b_nodetypedvalue == <<98, 46, 110, 111, 100, 101, 84, 121, 112, 101, 100, 86, 97, 108, 117, 101>>   \* "b.nodeTypedValue"

\* the assignments: base64 text, base64 text that decodes to a NUL byte,
\* text that is not base64, a number, and the typed value itself
TypedSets ==
    {<<N_a_text, StrV(V_aGk)>>, <<N_a_text, StrV(V_AGg)>>, <<N_a_text, StrV(A_ac)>>,
     <<N_a_text, IntV(9)>>, <<A_a_nodetypedvalue, StrV(V_T)>>}

TypedArgs == {StrV(A_a_nodetypedvalue), StrV(A_b_nodetypedvalue)}

TypedNext ==
    \/ \E s \in TypedSets : last.op # "eval_arg" /\ Set(1, s[1], s[2], NoneV, TRUE)
    \/ \E arg \in TypedArgs, treat \in BOOLEAN, level \in Levels :
          last.op # "eval_arg" /\ EvalArg(1, arg, treat, level)

TypedSpec == EvalInit /\ [][TypedNext]_vars

---------------------------------------------------------------------------
(* vba_object.py: coercion of an argument list *)

\* the first index of a non-empty set of indexes
First(idx) == CHOOSE i \in idx : \A j \in idx : i <= j

\* [f(arg) for arg in args] for the coerced elements rs: the first exception
\* ends the comprehension
Comprehension(rs) ==
    IF \E i \in DOMAIN rs : rs[i].exc # ""
    THEN Raise(rs[First({i \in DOMAIN rs : rs[i].exc # ""})].exc)
    ELSE Return([i \in DOMAIN rs |-> rs[i].val])

coerce_args_to_str(args) == Comprehension([i \in DOMAIN args |-> coerce_to_str(args[i])])

coerce_args_to_int(args) == Comprehension([i \in DOMAIN args |-> coerce_to_int(args[i])])

\* the list with every None turned into "NULL"
NullArgs(orig_args) ==
    [i \in DOMAIN orig_args |-> IF orig_args[i] = NoneV THEN StrV(S_NULL) ELSE orig_args[i]]

\* the elements the type scan looks at: those that are not "NULL"
Typed(args) == {i \in DOMAIN args : args[i] # StrV(S_NULL)}

\* the scan has met an element that is neither str nor int
HaveOtherType(args) == \E i \in Typed(args) : args[i].t \notin {"str", "int"}

\* the type of the first element the scan looks at; "int" when there is none
FirstType(args) ==
    IF Typed(args) = {} THEN "int"
    ELSE IF args[First(Typed(args))].t \in {"str", "int"}
    THEN args[First(Typed(args))].t
    ELSE "none"

\* coerce_args that coerces also next to an element of another type
MutCoerceArgsAnyType(orig_args) ==
    IF Len(orig_args) = 0 THEN Return(orig_args)
    ELSE IF FirstType(NullArgs(orig_args)) = "str"
    THEN coerce_args_to_str(NullArgs(orig_args))
    ELSE coerce_args_to_int(NullArgs(orig_args))

\* coerce_args; the two loops that are to replace "NULL" compare the list,
\* not the element, with "NULL" and so copy the list as it is
coerce_args(orig_args) ==
    IF Len(orig_args) = 0 THEN Return(orig_args)
    ELSE IF HaveOtherType(NullArgs(orig_args)) THEN Return(NullArgs(orig_args))
    ELSE IF FirstType(NullArgs(orig_args)) = "none" THEN Return(NullArgs(orig_args))
    ELSE IF FirstType(NullArgs(orig_args)) = "str"
    THEN coerce_args_to_str(NullArgs(orig_args))
    ELSE coerce_args_to_int(NullArgs(orig_args))

\* coerce_args called on the evaluated arguments of a call
CoerceArgs(orig_args) ==
    /\ LET r == coerce_args(orig_args)
       IN  last' = [NoCall EXCEPT !.op = "coerce_args", !.args = orig_args,
                                  !.res = [ok |-> r.exc = "", val |-> r.val],
                                  !.exc = r.exc]
    /\ UNCHANGED <<ctxs, dicts, ofiles, cfiles, actions, out_dir, world, nodes, disk, nops>>

MaxArgs == 3

V_one == <<49>>   \* "1"

\* the elements of the lists: None, "NULL", numeric and other text, numbers,
\* and a VBA_Object that was not evaluated
ArgValues ==
    {NoneV, StrV(S_NULL), StrV(V_one), StrV(N_x), StrV(<<>>), IntV(2), IntV(-1),
     NodeV(N_n, 4)}

ArgLists == UNION {[1..k -> ArgValues] : k \in 0..MaxArgs}

\* a run coerces one argument list
ArgsNext == \E orig_args \in ArgLists : last.op # "coerce_args" /\ CoerceArgs(orig_args)

ArgsSpec == Init /\ [][ArgsNext]_vars

---------------------------------------------------------------------------
(* Runs that drop files into a configured output directory *)

\* the sample has opened "#1" and "1" and written nothing yet
DropInit ==
    LET r == Context(<<EngineGlobals, EngineDocVars>>, <<>>, <<>>, <<>>,
                     G0, None, None, Engine, D0)
    IN  /\ ctxs = <<r.ctx>>
        /\ dicts = r.dicts
        /\ ofiles = [r.ofiles EXCEPT ![r.ctx.open_files] =
                        Put(Put(@, F_1, [name |-> F_1, contents |-> <<>>]),
                            F_plain1, [name |-> F_plain1, contents |-> <<>>])]
        /\ cfiles = r.cfiles
        /\ actions = <<>>
        /\ out_dir = StrV(OutDir)
        /\ disk = EmptyDict
        /\ world = World0
        /\ nodes = <<>>
        /\ last = NoCall
        /\ nops = 0

DropNext ==
    \/ \E f \in FileIds : open_file(1, f)
    \/ \E f \in FileIds, b \in Bytes : write_file(1, f, b)
    \/ \E f \in FileIds : dump_file(1, f)
    \/ dump_all_files(1)

DropSpec == DropInit /\ [][DropNext]_vars

---------------------------------------------------------------------------
(* Runs that read spreadsheet cells *)

C_pre == <<84, 104, 105, 115, 87, 111, 114, 107, 98, 111, 111, 107, 46, 83, 104, 101, 101, 116, 115, 40, 39, 83, 39, 41, 46, 82, 97, 110, 103, 101, 40, 39>>   \* "ThisWorkbook.Sheets('S').Range('"
C_pre_upper == <<84, 72, 73, 83, 87, 79, 82, 75, 66, 79, 79, 75, 46, 83, 72, 69, 69, 84, 83, 40, 39, 83, 39, 41, 46, 82, 65, 78, 71, 69, 40, 39>>   \* "THISWORKBOOK.SHEETS('S').RANGE('"
C_post == <<39, 41>>   \* "')"

\* the cell references of the run: column letters in either case and a row
CellRefs ==
    {[col |-> c, row |-> r] : c \in {<<65>>, <<97>>, <<90>>, <<122>>, <<65, 65>>, <<97, 97>>, <<66>>},
                              r \in 1..2}

\* the text of a cell read
CellText(pre, ref) == pre \o ref.col \o Digits(ref.row) \o C_post

CellArgs == {StrV(CellText(pre, ref)) : pre \in {C_pre, C_pre_upper}, ref \in CellRefs}

CellInit == \E wb \in {None, 1}, w \in Worlds : RootOf(EmptyDict, wb, w, NoneV)

CellNext ==
    \E arg \in CellArgs, treat \in BOOLEAN, level \in Levels :
        last.op # "eval_arg" /\ EvalArg(1, arg, treat, level)

CellSpec == CellInit /\ [][CellNext]_vars

---------------------------------------------------------------------------
(* Runs that assign the .datatype and the .text of a node *)

V_bin_padded == <<32, 98, 105, 110, 46, 98, 97, 115, 101, 54, 52, 32>>   \* " bin.base64 "
V_BIN_padded == <<32, 66, 73, 78, 46, 66, 97, 115, 101, 54, 52, 32>>   \* " BIN.Base64 "
V_BIN == <<66, 73, 78, 46, 66, 65, 83, 69, 54, 52>>   \* "BIN.BASE64"

\* the assignments: the datatype as the parser knows it, padded with blanks,
\* in other case, and another datatype; base64 text and other text
DatatypeSets ==
    {<<N_a_datatype, StrV(S_bin_base64)>>, <<N_a_datatype, StrV(V_bin_padded)>>,
     <<N_a_datatype, StrV(V_BIN_padded)>>, <<N_a_datatype, StrV(V_BIN)>>,
     <<N_a_datatype, StrV(V_txt)>>, <<N_a_text, StrV(V_aGk)>>, <<N_a_text, StrV(V_txt)>>}

DatatypeNext == \E s \in DatatypeSets, f \in BOOLEAN : Set(1, s[1], s[2], NoneV, f)

DatatypeSpec == Init /\ [][DatatypeNext]_vars

---------------------------------------------------------------------------
(* Runs that resolve texts over bindings that lead back to themselves *)

\* the assignments: c holds a dotted text that ends in c, x holds its own
\* name, x holds plain text
LoopSets == {<<N_c, StrV(A_ac)>>, <<N_x, StrV(N_x)>>, <<N_x, StrV(V_aGk)>>}

A_ax == <<97, 46, 120>>   \* "a.x"

LoopArgs == {StrV(A_ac), StrV(A_abc), StrV(A_ax), StrV(A_var), StrV(N_x)}

LoopNext ==
    \/ \E s \in LoopSets : last.op # "eval_arg" /\ Set(1, s[1], s[2], NoneV, TRUE)
    \/ \E arg \in LoopArgs, treat \in BOOLEAN, level \in Levels :
          last.op # "eval_arg" /\ EvalArg(1, arg, treat, level)

LoopSpec == EvalInit /\ [][LoopNext]_vars

---------------------------------------------------------------------------
(* The symbol table as the claims see it *)

Locals(c) == dicts[ctxs[c].locals]
Globals(c) == dicts[ctxs[c].globals]
Tiers(c) == <<Locals(c), Globals(c), VBA_LIBRARY>>
Bound(c, f) == \E i \in 1..3 : f \in DOMAIN Tiers(c)[i]
\* the binding of f in the first tier that has one
TierValue(c, f) ==
    LET i == CHOOSE i \in 1..3 : /\ f \in DOMAIN Tiers(c)[i]
                                 /\ \A j \in 1..(i - 1) : f \notin DOMAIN Tiers(c)[j]
    IN  Tiers(c)[i][f]
NameForms(c, name) ==
    <<Lower(ctxs[c].with_prefix \o name), Lower(name), Lower(name \o S_dollar)>>
GetNow(c, name) == get(Store(c), ctxs[c], name)
LastIs(op) == last.op = op

\* C1: get(name) returns the binding of the first of the name forms
\* with_prefix+name, name, name+"$" (lowercased) that some tier binds, taken from
\* locals, else globals, else the library; it raises KeyError only if no form
\* is bound in any tier.
C1_GetFirstHit ==
    LastIs("get") =>
        LET c == last.ctx
            F == NameForms(c, last.name)
            hits == {i \in 1..3 : Bound(c, F[i])}
        IN  IF hits = {} THEN last.res = KeyError
            ELSE LET i == CHOOSE i \in hits : \A j \in hits : i <= j
                 IN  last.res = Hit(TierValue(c, F[i]))

\* a get under an active With prefix that only the "$" form satisfies
C1_Witness ==
    /\ LastIs("get")
    /\ ctxs[last.ctx].with_prefix # <<>>
    /\ LET F == NameForms(last.ctx, last.name)
       IN  ~Bound(last.ctx, F[1]) /\ ~Bound(last.ctx, F[2]) /\ Bound(last.ctx, F[3])
    /\ last.res.ok

\* C2 as stated: for a lowercased name n bound in some tier, get(n) returns the
\* locals binding of n if there is one, else the globals binding, else the
\* library binding, in every reachable state.
C2_Original ==
    (LastIs("get") /\ last.name = Lower(last.name) /\ Bound(last.ctx, last.name))
        => last.res = Hit(TierValue(last.ctx, last.name))

\* C2 amended: the same, provided no With prefix is active or with_prefix+n is
\* bound in no tier.
C2_TierOrder ==
    (/\ LastIs("get")
     /\ last.name = Lower(last.name)
     /\ Bound(last.ctx, last.name)
     /\ \/ ctxs[last.ctx].with_prefix = <<>>
        \/ ~Bound(last.ctx, Lower(ctxs[last.ctx].with_prefix \o last.name)))
        => last.res = Hit(TierValue(last.ctx, last.name))

\* get("len") with len bound in locals, globals and the library
C2_Witness ==
    /\ LastIs("get")
    /\ last.name = N_len
    /\ N_len \in DOMAIN Locals(last.ctx)
    /\ N_len \in DOMAIN Globals(last.ctx)
    /\ N_len \in DOMAIN VBA_LIBRARY
    /\ Locals(last.ctx)[N_len] # Globals(last.ctx)[N_len]
    /\ last.res = Hit(Locals(last.ctx)[N_len])

\* C3: right after set(n, v), get(n) returns v, and so does get of the
\* upper-case and of the lower-case form of n, with or without a With prefix.
C3_SetGetRoundTrip ==
    (LastIs("set") /\ last.flag) =>
        \A n \in {last.name, Lower(last.name), Upper(last.name)} :
            GetNow(last.ctx, n) = Hit(last.value)

\* set("A", v) under the active prefix "VBA.", read back as "a"
C3_Witness ==
    /\ LastIs("set") /\ last.flag
    /\ last.name = N_A
    /\ ctxs[last.ctx].with_prefix = P_VBA
    /\ GetNow(last.ctx, N_a) = Hit(last.value)

\* C4: a set call never changes a globals entry that holds a procedure, in any
\* globals mapping, and a set on such a name stores the value in the caller's
\* locals.
C4_ProcedureKept ==
    [][last'.op = "set" =>
        /\ \A c \in DOMAIN ctxs : \A k \in DOMAIN Globals(c) :
              is_procedure(Globals(c)[k]) =>
                  /\ k \in DOMAIN dicts'[ctxs[c].globals]
                  /\ dicts'[ctxs[c].globals][k] = Globals(c)[k]
        /\ LET c == last'.ctx
               n == Lower(last'.name)
           IN  (n \in DOMAIN Globals(c) /\ is_procedure(Globals(c)[n])) =>
                  /\ n \in DOMAIN dicts'[ctxs[c].locals]
                  /\ dicts'[ctxs[c].locals][n] = last'.value
      ]_vars

\* a callee that shares the engine's globals has set the name of the Function
C4_Witness ==
    /\ LastIs("set")
    /\ last.ctx = 2
    /\ ctxs[2].globals = ctxs[1].globals
    /\ Lower(last.name) = N_len
    /\ Globals(2)[N_len] = ProcV(1)
    /\ Locals(2)[N_len] = last.value

\* the keys of locals and globals of Context c whose binding a step changes
Changed(c) ==
    {k \in DOMAIN dicts'[ctxs[c].locals] :
        k \notin DOMAIN Locals(c) \/ dicts'[ctxs[c].locals][k] # Locals(c)[k]}
    \cup
    {k \in DOMAIN dicts'[ctxs[c].globals] :
        k \notin DOMAIN Globals(c) \/ dicts'[ctxs[c].globals][k] # Globals(c)[k]}
KeysAfter(c) == DOMAIN dicts'[ctxs[c].locals] \cup DOMAIN dicts'[ctxs[c].globals]
KeysBefore(c) == DOMAIN Locals(c) \cup DOMAIN Globals(c)
GetAfter(c, name) == get([d |-> dicts', ty |-> ctxs'[c].types], ctxs'[c], name)
BoundAfter(c, f) ==
    \/ f \in DOMAIN dicts'[ctxs[c].locals]
    \/ f \in DOMAIN dicts'[ctxs[c].globals]
    \/ f \in DOMAIN VBA_LIBRARY
\* a default set call made while a With prefix is active
PrefixedSet ==
    /\ last'.op = "set"
    /\ last'.flag
    /\ ctxs[last'.ctx].with_prefix # <<>>

\* the keys a set call changes, the .nodetypedvalue keys of the base64
\* enrichment apart
ChangedPlain(c) == {k \in Changed(c) : ~EndsWith(k, S_nodetypedvalue)}

Sibling(k) == Replace(k, S_text, S_nodetypedvalue)
\* the keys the claim lets set(name, ..) touch: the name, its With-prefixed
\* alias, the .nodetypedvalue siblings of those, and the alias of the sibling
Allowed(c, n, flag) ==
    LET p == ctxs[c].with_prefix
        alias == IF flag /\ p # <<>> THEN {Lower(p \o n)} ELSE {}
        sib == {Sibling(k) : k \in {x \in {n} \cup alias : EndsWith(x, S_text)}}
        sibalias == IF p # <<>> /\ EndsWith(n, S_text) THEN {Lower(p \o Sibling(n))} ELSE {}
    IN  {n} \cup alias \cup sib \cup sibalias

\* C6: set writes locals[n] if n is in locals, else globals[n] if n is in
\* globals and no procedure, else locals[n]; it adds no key to globals; and it
\* changes no binding other than n, its With-prefixed alias and the
\* .nodetypedvalue sibling of a .text name.
C6_Claim ==
    [][last'.op = "set" =>
        LET c == last'.ctx
            n == Lower(last'.name)
            L == dicts'[ctxs[c].locals]
            G == dicts'[ctxs[c].globals]
        IN  /\ IF n \in DOMAIN Locals(c)
               THEN L[n] = last'.value
               ELSE IF n \in DOMAIN Globals(c) /\ ~is_procedure(Globals(c)[n])
               THEN G[n] = last'.value /\ n \notin DOMAIN L
               ELSE n \in DOMAIN L /\ L[n] = last'.value
            /\ DOMAIN G = DOMAIN Globals(c)
            /\ Changed(c) \subseteq Allowed(c, n, last'.flag)
      ]_vars

\* C7 as stated: a callee built from a parent shares the parent's globals
\* mapping, and a value set through one Context into globals is what get
\* returns in every other Context on those globals that has no local of the name.
C7_Original ==
    /\ (LastIs("new") /\ last.args[3] # None /\ last.args[1] = None)
          => ctxs[last.ctx].globals = ctxs[last.args[3]].globals
    /\ (LastIs("set") /\ Lower(last.name) \notin DOMAIN Locals(last.ctx)) =>
          \A d \in (DOMAIN ctxs) \ {last.ctx} :
              (/\ ctxs[d].globals = ctxs[last.ctx].globals
               /\ Lower(last.name) \notin DOMAIN Locals(d))
                  => GetNow(d, last.name) = Hit(last.value)

\* C7 amended: the same, for every other Context in which no With prefix is
\* active or with_prefix+name is bound in no tier.
C7_SharedGlobals ==
    /\ (LastIs("new") /\ last.args[3] # None /\ last.args[1] = None)
          => ctxs[last.ctx].globals = ctxs[last.args[3]].globals
    /\ (LastIs("set") /\ Lower(last.name) \notin DOMAIN Locals(last.ctx)) =>
          \A d \in (DOMAIN ctxs) \ {last.ctx} :
              (/\ ctxs[d].globals = ctxs[last.ctx].globals
               /\ Lower(last.name) \notin DOMAIN Locals(d)
               /\ \/ ctxs[d].with_prefix = <<>>
                  \/ ~Bound(d, Lower(ctxs[d].with_prefix \o last.name)))
                  => GetNow(d, last.name) = Hit(last.value)

\* the caller has set the global vbkeytab and its callee reads the new value
C7_Witness ==
    /\ LastIs("set")
    /\ last.ctx = 1
    /\ Lower(last.name) = N_vbkeytab
    /\ N_vbkeytab \notin DOMAIN Locals(1)
    /\ Len(ctxs) = 2
    /\ ctxs[2].globals = ctxs[1].globals
    /\ GetNow(2, N_vbkeytab) = Hit(last.value)
    /\ last.value # SeededGlobals[N_vbkeytab]

\* C8: a set call on one Context leaves the locals mapping of every other
\* Context as it was; constructing a Context leaves every existing locals
\* mapping as it was, and a Context built without locals starts with none.
C8_ParentLocalsKept ==
    [][/\ last'.op = "set" =>
            \A d \in (DOMAIN ctxs) \ {last'.ctx} : dicts'[ctxs[d].locals] = Locals(d)
       /\ last'.op = "new" =>
            /\ \A d \in DOMAIN ctxs : dicts'[ctxs[d].locals] = Locals(d)
            /\ last'.args[2] = None => dicts'[ctxs'[last'.ctx].locals] = EmptyDict
            /\ last'.args[2] # None => dicts'[ctxs'[last'.ctx].locals] = dicts[last'.args[2]]
      ]_vars

\* a callee built on a copy of its caller's locals has set a further name
C8_Witness ==
    /\ LastIs("set")
    /\ last.ctx = 2
    /\ Locals(1) # EmptyDict
    /\ DOMAIN Locals(1) \subseteq DOMAIN Locals(2)
    /\ DOMAIN Locals(1) # DOMAIN Locals(2)

\* C9: a Context constructed from a parent, whatever the other arguments,
\* shares the parent's open_files and closed_files.
C9_Claim ==
    (LastIs("new") /\ last.args[3] # None) =>
        /\ ctxs[last.ctx].open_files = ctxs[last.args[3]].open_files
        /\ ctxs[last.ctx].closed_files = ctxs[last.args[3]].closed_files

OpenFiles(c) == ofiles[ctxs[c].open_files]
ClosedFiles(c) == cfiles[ctxs[c].closed_files]
NoHash(s) == SelectSeq(s, LAMBDA ch : ch # 35)

C11_DumpNotOpen ==
    [][(last'.op = "dump" /\ last'.name \notin DOMAIN OpenFiles(last'.ctx)) =>
          /\ last'.exc = ""
          /\ actions' = actions
          /\ ofiles' = ofiles
          /\ cfiles' = cfiles
          /\ disk' = disk
      ]_vars

\* a dump_file of "#1" that found it closed already, its one report made
C11_Witness ==
    /\ LastIs("dump")
    /\ ~last.flag
    /\ last.name = F_1
    /\ F_plain1 \in DOMAIN ClosedFiles(last.ctx)
    /\ Len(actions) = 1

DocVars(c) == dicts[ctxs[c].doc_vars]

\* C12: get_doc_var(name) of a string name returns the stored value when the
\* lowercased name is a key of doc_vars; on a direct miss it returns what the
\* lookup of the variable's value returns when name resolves as a variable,
\* and otherwise the "*" document variable when there is one; it returns
\* not-found only when all of these miss.  In particular it never returns
\* not-found, and does not raise, when doc_vars holds "*".
C12_Claim ==
    (LastIs("get_doc_var") /\ last.value.t = "str") =>
        LET c == last.ctx
            n == Lower(last.value.s)
        IN  /\ last.exc = ""
            /\ n \in DOMAIN DocVars(c) => last.res.val = DocVars(c)[n]
            /\ S_star \in DOMAIN DocVars(c) => last.res.val # NoneV

\* the safety check at the entry of the eval_arg call passed
WithinLimits == ~limits_exceeded(last.level + 1, world, FALSE).val

\* the text after the last "." of s
LastSegment(s) == From(Lower(s), RIndex(Lower(s), S_dot) + 1)

\* nothing a resolution step could find: no workbook, no metadata, no document
\* variables, no local variables, and the last segment no name of any tier
NothingToResolve(c, arg) ==
    /\ ctxs[c].loaded_excel = None
    /\ ~world.meta.present
    /\ DocVars(c) = EmptyDict
    /\ Locals(c) = EmptyDict
    /\ ~Bound(c, Lower(arg))
    /\ Contains(arg, S_dot) => ~Bound(c, LastSegment(arg))

\* C13: eval_arg of a string arg, treat_as_var_name false, in a Context where
\* no resolution step has anything to find, returns arg unchanged and raises
\* nothing, the document accessor shapes included.
C13_Claim ==
    (/\ LastIs("eval_arg")
     /\ last.value.t = "str"
     /\ ~last.flag
     /\ WithinLimits
     /\ NothingToResolve(last.ctx, last.value.s))
        => (last.exc = "" /\ last.res.val = last.value)

\* C14: once the safety check has passed, eval_arg raises nothing, whatever
\* the argument, the workbook, the document variables and the bindings are.
C14_Claim ==
    (LastIs("eval_arg") /\ WithinLimits) => last.exc = ""

\* C15: a readable spreadsheet cell and a readable object text are returned
\* without the eval of the node being called, and a string arg bound as a
\* variable gives the variable's value with no step after the variable lookup
\* being gone through.
C15_Claim ==
    (LastIs("eval_arg") /\ WithinLimits) =>
        LET c == last.ctx
            arg == last.value
        IN  /\ (Str(arg) = A_cell /\ ctxs[c].loaded_excel # None)
                  => (last.res.val = StrV(V_cell) /\ last.steps = <<"excel">>)
            /\ (arg = MemberV(A_shape2_text, 1) /\ N_shape1_text \in DOMAIN DocVars(c))
                  => (/\ last.res.val = DocVars(c)[N_shape1_text]
                      /\ last.steps = <<"excel", "object_text">>)
            /\ (arg.t = "str" /\ GetNow(c, arg.s).ok)
                  => (/\ last.exc = ""
                      /\ last.res.val = GetNow(c, arg.s).val
                      /\ last.steps = <<"excel", "object_text", "get">>)

\* the accessor texts of the run and the document variable each one names
VariableAccessors ==
    {<<A_var, N_X>>, <<A_var_lower, N_x>>, <<A_var_upper, N_X>>,
     <<A_var_paren, N_v_paren>>}

\* C16: eval_arg("ActiveDocument.Variables('X').Value") returns the value
\* doc_vars holds under the lowercased X, for every X and every letter case
\* of the text, in a Context that binds no other name the steps look up.
C16_Claim ==
    \A a \in VariableAccessors :
        (/\ LastIs("eval_arg")
         /\ last.value = StrV(a[1])
         /\ WithinLimits
         /\ Lower(a[2]) \in DOMAIN DocVars(last.ctx)
         /\ S_star \notin DOMAIN DocVars(last.ctx)
         /\ Locals(last.ctx) = EmptyDict)
            => (last.exc = "" /\ last.res.val = DocVars(last.ctx)[Lower(a[2])])

\* C20: an eval_arg call in which or beneath which the safety check has failed
\* raises the limit error; it returns no value.
C20_Claim ==
    (LastIs("eval_arg") /\ last.fatal) => last.exc = "RuntimeError"

\* C17: set of a name ending in ".text" whose ".datatype" sibling resolves
\* through get to "bin.base64" stores the value, and when the value decodes as
\* base64 get of the ".nodetypedvalue" sibling returns the decoded text; when
\* it does not decode no ".nodetypedvalue" binding changes.
C17_Base64Enrichment ==
    [][(last'.op = "set" /\ EndsWith(Lower(last'.name), S_text)) =>
        LET c == last'.ctx
            n == Lower(last'.name)
            post == [d |-> dicts', ty |-> ctxs'[c].types]
            datatype == GetAfter(c, Replace(n, S_text, S_datatype))
            conv == b64decode(Strip(Str(last'.value)))
        IN  /\ get_(post, ctxs'[c], n) = Hit(last'.value)
            /\ (datatype.ok /\ datatype.val = StrV(S_bin_base64)) =>
                  IF conv.ok
                  THEN GetAfter(c, Replace(n, S_text, S_nodetypedvalue))
                          = Hit(StrV(conv.bytes))
                  ELSE \A k \in Changed(c) : ~EndsWith(k, S_nodetypedvalue)
      ]_vars

\* set("a.datatype", "bin.base64") and then set("a.text", "aGk=") have made
\* get("a.nodetypedvalue") return "hi"
C17_Witness ==
    /\ LastIs("set")
    /\ last.name = N_a_text
    /\ last.value = StrV(V_aGk)
    /\ GetNow(last.ctx, N_a_datatype) = Hit(StrV(S_bin_base64))
    /\ GetNow(last.ctx, Replace(N_a_text, S_text, S_nodetypedvalue))
          = Hit(StrV(<<104, 105>>))

\* C18: coerce_to_str of the "NULL" marker and of None is the empty string and
\* coerce_to_int of either is 0, neither raising; coerce_to_str never raises;
\* and coerce_to_str applied to what it returned for a value x that is not
\* Null returns that same string again.
C18_CoercionNullSafe ==
    /\ (last.op = "coerce_to_str" /\ ~last.flag /\ IsNull(last.value)) =>
          (last.exc = "" /\ last.res.val = StrV(<<>>))
    /\ (last.op = "coerce_to_int" /\ IsNull(last.value)) =>
          (last.exc = "" /\ last.res.val = IntV(0))
    /\ last.op = "coerce_to_str" => (last.exc = "" /\ last.res.val.t = "str")
    /\ (last.op = "coerce_to_str" /\ last.flag /\ ~IsNull(last.args[1])) =>
          last.res.val = last.value

\* a number that is not Null has been coerced to its text and that text again
C18_Witness ==
    /\ last.op = "coerce_to_str"
    /\ last.flag
    /\ last.args = <<IntV(-MaxInt)>>
    /\ last.res.val = StrV(Str(IntV(-MaxInt)))

\* C19: limits_exceeded reports True exactly when the depth is above three
\* quarters of the recursion limit, or a deadline is configured and the clock
\* is past it; called with throw_error it raises in exactly those cases and
\* returns False otherwise.  With a limit of 100, depth 76 raises and depth 50
\* does not unless the deadline has passed; without a deadline the clock never
\* triggers.
C19_LimitsExceeded ==
    last.op = "limits_exceeded" =>
        LET deep == 100 * last.level > 75 * world.recursionlimit
            late == /\ world.max_emulation_time.present
                    /\ world.now > world.max_emulation_time.t
        IN  /\ IF last.flag
               THEN /\ (last.exc # "") <=> (deep \/ late)
                    /\ last.exc = "" => last.res.val = BoolV(FALSE)
               ELSE /\ last.exc = ""
                    /\ last.res.val = BoolV(deep \/ late)
            /\ (world.recursionlimit = 100 /\ last.level = 76 /\ last.flag) =>
                  last.exc # ""
            /\ (world.recursionlimit = 100 /\ last.level = 50
                  /\ ~world.max_emulation_time.present) =>
                  (last.exc = "" /\ last.res.val = BoolV(FALSE))
            /\ ~world.max_emulation_time.present =>
                  ((last.exc # "" \/ last.res.val = BoolV(TRUE)) <=> deep)

\* depth 76 of 100 with errors requested, before any deadline: the call raised
C19_Witness ==
    /\ last.op = "limits_exceeded"
    /\ world.recursionlimit = 100
    /\ last.level = 76
    /\ last.flag
    /\ ~world.max_emulation_time.present
    /\ last.exc = "RuntimeError: recursion depth"

\* the deadline alone trips the check: shallow, clock past the deadline
C19_WitnessLate ==
    /\ last.op = "limits_exceeded"
    /\ last.level = 1
    /\ ~last.flag
    /\ world.max_emulation_time.present
    /\ world.now > world.max_emulation_time.t
    /\ last.res.val = BoolV(TRUE)
\* the answer of the lookup last made, had it been given the name n
AnswerFor(n) ==
    LET c == last.ctx  st == Store(last.ctx)  cx == ctxs[last.ctx]
    IN  IF last.op = "get" THEN get(st, cx, n)
        ELSE IF last.op = "contains" THEN Hit(BoolV(contains(st, cx, n, last.flag)))
        ELSE IF last.op = "contains_user_defined"
        THEN Hit(BoolV(contains_user_defined(st, cx, n)))
        ELSE IF last.op = "get_type" THEN Hit(get_type(st, cx, StrV(n)))
        ELSE LET r == get_doc_var(st, cx, StrV(n), {})
             IN  [ok |-> r.exc = "", val |-> r.val]

\* the text a lookup was called with
AskedName == IF last.op = "get_doc_var" THEN last.value.s ELSE last.name

\* C22: every key of locals and of types is lowercase, and each lookup (get,
\* contains, contains_user_defined, get_type, get_doc_var) answers the same
\* for the name it was given, for its lowercase and for its uppercase form.
C22_Claim ==
    /\ \A k \in (DOMAIN Locals(1)) \cup (DOMAIN ctxs[1].types) : k = Lower(k)
    /\ last.op \in {"get", "contains", "contains_user_defined", "get_type", "get_doc_var"}
          => /\ AnswerFor(Lower(AskedName)) = last.res
             /\ AnswerFor(Upper(AskedName)) = last.res
\* the children of node n as its __dict__ gives them
Children(n) == Collect(nodes[n].dict, <<>>)

\* the nodes from n on in pre-order, down to depth generations
RECURSIVE PreOrder(_, _)
RECURSIVE PreOrderAll(_, _, _)
PreOrderAll(children, i, depth) ==
    IF i > Len(children) THEN <<>>
    ELSE PreOrder(children[i], depth) \o PreOrderAll(children, i + 1, depth)
PreOrder(n, depth) ==
    IF depth = 0 THEN <<>> ELSE <<n>> \o PreOrderAll(Children(n), 1, depth - 1)

IsPrefix(s, t) == Len(s) <= Len(t) /\ SubSeq(t, 1, Len(s)) = s

\* no node is reached twice on the way down from n: the code under n is a tree
\* (within the depth a traversal can go to)
IsTree(n) ==
    LET p == PreOrder(n, RecursionLimit + 1)
    IN  \A i, j \in 1..Len(p) : p[i] = p[j] => i = j

\* C21 as stated: accept visits, on every tree, every node reachable through
\* get_children, each parent before its children and the children in the
\* order get_children returns them.
C21_Original ==
    (LastIs("accept") /\ IsTree(last.ctx)) =>
        last.steps = PreOrder(last.ctx, RecursionLimit + 1)

\* C21: an accept that returns has visited exactly the nodes reachable through
\* get_children, in pre-order; an accept that does not return has raised the
\* limit error of the safety check after visiting an initial part of that
\* pre-order.
C21_PreOrder ==
    LastIs("accept") =>
        IF last.exc = ""
        THEN last.steps = PreOrder(last.ctx, RecursionLimit + 1)
        ELSE /\ last.exc \in {"RuntimeError: recursion depth",
                              "RuntimeError: emulation time"}
             /\ IsPrefix(last.steps, PreOrder(last.ctx, RecursionLimit + 1))

\* a statement with nested arguments has accepted a visitor: four nodes
\* visited, the first argument's own argument before the second argument
C21_Witness ==
    /\ LastIs("accept")
    /\ last.exc = ""
    /\ Len(last.steps) = 4
    /\ last.steps = <<1, 2, 4, 3>>
\* the variable c holds the text "a.c", whose last segment names c again, and
\* nothing else resolves that text: its resolution never comes to an end
CyclicBinding(c) ==
    /\ GetNow(c, N_c) = Hit(StrV(A_ac))
    /\ ~GetNow(c, A_ac).ok
    /\ DocVars(c) = EmptyDict

\* C23: eval_arg consults the safety check before anything else, so a call
\* made beyond the limits raises the limit error without having tried any
\* strategy; and the resolution of a text bound in a cycle ends with the limit
\* error.
C23_Claim ==
    LastIs("eval_arg") =>
        /\ ~WithinLimits => (last.exc = "RuntimeError" /\ last.steps = <<>>)
        /\ (last.value = StrV(A_ac) /\ CyclicBinding(last.ctx))
              => last.exc = "RuntimeError"
\* the strategies before the variable lookup have yielded nothing, and the
\* lookup of the text itself has missed
LookupMissed ==
    /\ LastIs("eval_arg")
    /\ last.value.t = "str"
    /\ Len(last.steps) >= 3
    /\ last.steps[3] = "get"
    /\ ~GetNow(last.ctx, last.value.s).ok

\* the sibling key of the typed-value hack and of the selected-item hack
TextSibling(s) == Replace(Lower(s), S_nodetypedvalue, S_text)
RaptSibling(s) == Replace(Lower(s), S_selecteditem, S_rapt_value)

\* C24: a string arg that contains "." and that the variable lookup, the
\* typed-value hack and the selected-item hack have all missed enters the
\* dotted-name chain: it is tried as a document variable, and a document
\* variable found for it is what eval_arg returns.
C24_Claim ==
    (/\ LookupMissed
     /\ Contains(Lower(last.value.s), S_dot)
     /\ Contains(Lower(last.value.s), S_nodetypedvalue)
           => ~GetNow(last.ctx, TextSibling(last.value.s)).ok
     /\ Contains(Lower(last.value.s), S_selecteditem)
           => ~GetNow(last.ctx, RaptSibling(last.value.s)).ok)
        => /\ Len(last.steps) >= 4
           /\ last.steps[4] = "doc_var"
           /\ LET dv == get_doc_var(Store(last.ctx), ctxs[last.ctx], last.value, {})
              IN  (dv.exc = "" /\ dv.val # NoneV) => last.res.val = dv.val
\* what the typed-value hack makes of the value of the .text sibling
TypedValue(val) ==
    IF val.t = "str" /\ b64decode(val.s).ok
    THEN StrV(Replace(b64decode(val.s).bytes, S_nul, <<>>))
    ELSE val

\* C25: for a string arg that is not itself bound, whose lowercased text
\* contains .nodetypedvalue and whose .text sibling is bound, eval_arg returns
\* the base64 decoding of the sibling's value with the NUL bytes removed when
\* that decoding is valid, and the sibling's value as it is when it is not.
C25_TypedValue ==
    (/\ LookupMissed
     /\ Contains(Lower(last.value.s), S_nodetypedvalue)
     /\ GetNow(last.ctx, TextSibling(last.value.s)).ok)
        => /\ last.exc = ""
           /\ last.res.val = TypedValue(GetNow(last.ctx, TextSibling(last.value.s)).val)

\* the sibling holds base64 text whose decoding starts with a NUL byte
C25_Witness ==
    /\ LookupMissed
    /\ last.value = StrV(A_a_nodetypedvalue)
    /\ GetNow(last.ctx, N_a_text) = [ok |-> TRUE, val |-> StrV(V_AGg)]
    /\ last.res.val = StrV(<<104>>)

\* the sibling holds text that is not base64
C25_WitnessRaw ==
    /\ LookupMissed
    /\ last.value = StrV(A_a_nodetypedvalue)
    /\ GetNow(last.ctx, N_a_text).ok
    /\ last.res.val = StrV(A_ac)
\* the call has come to the function-name step: no earlier strategy answered
AtFunctionStep ==
    /\ LastIs("eval_arg")
    /\ Len(last.steps) >= 6
    /\ last.steps[6] = "function"

\* what the last dotted segment of the text is bound to
FuncBinding == GetNow(last.ctx, LastName(Lower(last.value.s)))

\* what the recursive resolution of that binding gives
Resolved == eval_arg(Store(last.ctx), ctxs[last.ctx], world, FuncBinding.val, TRUE, last.level + 1)

\* C26: at the function-name step the last dotted segment is looked up. If it
\* is bound, its value is resolved recursively as a variable name and the call
\* returns the resolved value when that differs from the value looked up, and
\* the original text otherwise; only if it is unbound does resolution go on
\* with the metadata accessors and the wildcard probe.
C26_Claim ==
    AtFunctionStep =>
        IF FuncBinding.ok
        THEN /\ Len(last.steps) = 6
             /\ last.exc = ""
                   => last.res.val = IF Resolved.val # FuncBinding.val
                                     THEN Resolved.val ELSE last.value
        ELSE /\ Len(last.steps) >= 7
             /\ last.steps[7] = "accessors"
\* a legal bare identifier: a letter or "_", then letters, digits and "_"
IsIdentifier(s) ==
    /\ s # <<>>
    /\ IsAlpha(s[1]) \/ s[1] = 95
    /\ \A i \in 2..Len(s) : IsAlpha(s[i]) \/ s[i] \in 48..57 \/ s[i] = 95

\* no strategy of the call has resolved the arg
Unresolved ==
    /\ LastIs("eval_arg")
    /\ last.steps # <<>>
    /\ last.steps[Len(last.steps)] = "literal"

\* C27: with treat_as_var_name set, an unresolved arg yields "NULL" exactly
\* when its text is a legal bare identifier; an unresolved text that is not one
\* (it holds a dot, a space or parentheses) is returned unchanged.
C27_Claim ==
    (Unresolved /\ last.flag) =>
        IF IsIdentifier(Str(last.value))
        THEN last.res.val = StrV(S_NULL)
        ELSE last.res.val = last.value
\* the list coerce_args was given, after None has become "NULL"
Given == NullArgs(last.args)

AllNull == \A i \in DOMAIN Given : Given[i] = StrV(S_NULL)

ThirdType == \E i \in DOMAIN Given : Given[i].t \notin {"str", "int"}

\* C28 as stated: coerce_args returns the list unchanged (after None has
\* become "NULL") whenever some element is of a third type and whenever no
\* typed element exists, a non-empty list of NULLs keeping its NULLs.
C28_Original ==
    (LastIs("coerce_args") /\ (ThirdType \/ AllNull))
        => (last.exc = "" /\ last.res.val = Given)

\* C28: coerce_args returns the list unchanged (after None has become "NULL")
\* whenever some element is of a third type, and returns the empty list for
\* the empty list; a non-empty list of NULLs is coerced to integers, every
\* element becoming 0.
C28_CoerceArgsLeavesAlone ==
    LastIs("coerce_args") =>
        /\ ThirdType => (last.exc = "" /\ last.res.val = Given)
        /\ (AllNull /\ ~ThirdType)
              => /\ last.exc = ""
                 /\ last.res.val = [i \in DOMAIN Given |-> IntV(0)]

\* a list with a NULL, a string and an element of a third type
C28_Witness ==
    /\ LastIs("coerce_args")
    /\ last.args = <<NoneV, StrV(V_one), NodeV(N_n, 4)>>
    /\ last.res.val = <<StrV(S_NULL), StrV(V_one), NodeV(N_n, 4)>>

\* a non-empty list of NULLs
C28_WitnessNull ==
    /\ LastIs("coerce_args")
    /\ last.args = <<NoneV, StrV(S_NULL)>>
    /\ last.res.val = <<IntV(0), IntV(0)>>

\* the type of the first element that is not NULL
TypeOfFirst == Given[First(Typed(Given))].t

\* C29: for a list whose non-NULL elements are all str or int, mixed lists of
\* integers and non-numeric strings included, coerce_args returns a list of
\* the same length and order in which every element has the type of the first
\* non-NULL element, NULL having become "" or 0.
C29_Claim ==
    (LastIs("coerce_args") /\ ~ThirdType /\ ~AllNull)
        => /\ last.exc = ""
           /\ Len(last.res.val) = Len(Given)
           /\ \A i \in DOMAIN Given :
                 /\ last.res.val[i].t = TypeOfFirst
                 /\ Given[i] = StrV(S_NULL)
                       => last.res.val[i] = IF TypeOfFirst = "str"
                                            THEN StrV(<<>>) ELSE IntV(0)
                 /\ Given[i].t = TypeOfFirst /\ Given[i] # StrV(S_NULL)
                       => last.res.val[i] = Given[i]
\* C30: with out_dir configured, a dump_file never overwrites a file dropped
\* earlier: every path on the disk keeps its content, the new file going to a
\* name with a " (N)" suffix when its base name is taken, and the dump raises
\* nothing.
C30_Claim ==
    [][(last'.op = "dump" /\ last'.flag /\ out_dir # NoneV)
          => /\ last'.exc = ""
             /\ \A p \in DOMAIN disk : p \in DOMAIN disk' /\ disk'[p] = disk[p]]_vars
\* the buffers closed_files holds after the step
ClosedAfter(c) == {cfiles'[ctxs[c].closed_files][name] : name \in DOMAIN cfiles'[ctxs[c].closed_files]}

\* C31: dump_all_files dumps every handle that is open when it is called:
\* afterwards open_files is empty, one "Dropped File Hash" action has been
\* reported per handle, and the buffer of every handle is in closed_files.
C31_Claim ==
    [][\A c \in DOMAIN ctxs :
          (last'.op = "dump_all" /\ last'.ctx = c) =>
              /\ DOMAIN ofiles'[ctxs[c].open_files] = {}
              /\ Len(actions') = Len(actions) + Cardinality(DOMAIN OpenFiles(c))
              /\ \A f \in DOMAIN OpenFiles(c) :
                    OpenFiles(c)[f].contents \in ClosedAfter(c)]_vars
\* the key dump_file files the buffer of an identifier under
ClosedName(file_id) == Replace(file_id, S_hash, <<>>)

\* C38: closing one file never discards what closed_files holds of another:
\* the entry that the dump of one open identifier has just recorded is still
\* there after the dump of a different open identifier.
C38_Claim ==
    [][\A c \in DOMAIN ctxs :
          (/\ last.op = "dump" /\ last.flag /\ last.ctx = c
           /\ last'.op = "dump" /\ last'.flag /\ last'.ctx = c
           /\ last'.name # last.name)
              => /\ ClosedName(last.name) \in DOMAIN cfiles'[ctxs[c].closed_files]
                 /\ cfiles'[ctxs[c].closed_files][ClosedName(last.name)]
                       = ClosedFiles(c)[ClosedName(last.name)]]_vars
\* C35: get_doc_var terminates for every name and every content of doc_vars,
\* locals and globals: the indirection through the values of variables comes
\* to a direct hit, the wildcard or not-found, never to a recursion without end.
C35_Claim == LastIs("get_doc_var") => last.exc = ""
\* the place of a column letter in the alphabet, in either case
Rank(c) == IF c >= 97 THEN c - 96 ELSE c - 64

\* the bijective base-26 number of column letters: A is 1, Z is 26, AA is 27
RECURSIVE ColumnNumber(_)
ColumnNumber(letters) ==
    IF letters = <<>> THEN 0
    ELSE ColumnNumber(SubSeq(letters, 1, Len(letters) - 1)) * 26 + Rank(letters[Len(letters)])

\* the zero-based row and column of a cell reference
CellAt(ref) == <<ref.row - 1, ColumnNumber(ref.col) - 1>>

\* eval_arg has been given the text of a read of the cell ref, with a workbook
\* loaded that has the cell
CellRead(pre, ref) ==
    /\ LastIs("eval_arg")
    /\ WithinLimits
    /\ last.value = StrV(CellText(pre, ref))
    /\ ctxs[last.ctx].loaded_excel # None
    /\ CellAt(ref) \in DOMAIN SheetS

\* C33: for a text of the form thisworkbook ... sheets(<name>) ... range(<ref>)
\* in any case, <ref> being column letters in either case and a 1-based row,
\* eval_arg reads cell_value(row - 1, col) of the named sheet, col the
\* zero-based bijective base-26 index of the letters.
C33_Claim ==
    \A pre \in {C_pre, C_pre_upper}, ref \in CellRefs :
        CellRead(pre, ref) => last.res.val = StrV(Str(SheetS[CellAt(ref)]))
\* C34: constructing a Context that shares an existing globals mapping leaves
\* the value of every name bound in that mapping as it was.
C34_Claim ==
    [][last'.op = "new" =>
          \A c \in DOMAIN ctxs :
              ctxs'[last'.ctx].globals = ctxs[c].globals =>
                  \A k \in DOMAIN dicts[ctxs[c].globals] :
                      /\ k \in DOMAIN dicts'[ctxs[c].globals]
                      /\ dicts'[ctxs[c].globals][k] = dicts[ctxs[c].globals][k]]_vars
\* the .datatype sibling of the name set is bound to "bin.base64", whatever
\* the case and the blanks around it
IsBase64Type(datatype) ==
    /\ datatype.ok
    /\ datatype.val.t = "str"
    /\ Lower(Strip(datatype.val.s)) = S_bin_base64

\* C32: the base64 enrichment of set is triggered whenever the .datatype
\* sibling resolves to "bin.base64" compared without regard to case and to
\* surrounding whitespace, and is not triggered for any other datatype or when
\* the sibling is unbound.
C32_Claim ==
    [][(last'.op = "set" /\ Lower(last'.name) = N_a_text /\ last'.value = StrV(V_aGk)) =>
          IF IsBase64Type(GetAfter(last'.ctx, N_a_datatype))
          THEN GetAfter(last'.ctx, A_a_nodetypedvalue) = Hit(StrV(<<104, 105>>))
          ELSE \A k \in Changed(last'.ctx) : ~EndsWith(k, S_nodetypedvalue)]_vars
\* C36: eval_arg on a string arg always terminates, with a value or with the
\* limit error of its safety check, whatever the Context holds: no binding
\* makes the resolution run without end.
C36_Claim ==
    (LastIs("eval_arg") /\ last.value.t = "str")
        => \/ last.exc = ""
           \/ last.exc = "RuntimeError" /\ last.fatal
\* "NULL" is a value the Context holds: of a variable, of a document variable,
\* of a cell of the workbook or of the document's metadata
NullStored(c) ==
    \/ \E k \in DOMAIN Locals(c) : Locals(c)[k] = StrV(S_NULL)
    \/ \E k \in DOMAIN Globals(c) : Globals(c)[k] = StrV(S_NULL)
    \/ \E k \in DOMAIN DocVars(c) : DocVars(c)[k] = StrV(S_NULL)
    \/ \E k \in DOMAIN SheetS : SheetS[k] = StrV(S_NULL)
    \/ \E k \in DOMAIN world.meta.attrs : world.meta.attrs[k] = StrV(S_NULL)

\* C37: called with treat_as_var_name false, and with no limit error beneath
\* it, eval_arg does not make up the uninitialized value: it returns "NULL"
\* only if "NULL" is held by the Context or comes from the eval of the arg.
C37_Claim ==
    (/\ LastIs("eval_arg")
     /\ ~last.flag
     /\ ~last.fatal
     /\ last.exc = ""
     /\ last.res.val = StrV(S_NULL))
        => \/ NullStored(last.ctx)
           \/ HasEval(last.value) /\ EvalOf(last.value) = StrV(S_NULL)

====
